---- MODULE Spec2Model ----
(***************************************************************************)
(* A model of the Jack compiler: the symbol environment (table.go), the    *)
(* VM code generator (compiler.go, nodes.go) and the recursive-descent     *)
(* parser (ParseTree).                                                     *)
(***************************************************************************)
EXTENDS Integers, Sequences, FiniteSets, TLC

VARIABLES
    Tbl,        \* the SymbolTableList under use: its list of SymbolTable
    ret,        \* what the last operation on the symbol environment returned
    adds,       \* per open table: successful AddVar calls so far, by kind
    opened,     \* CreateTable calls not yet matched by a CloseTable
    sb,         \* Compiler.sb: the VM lines written so far
    whileCount, \* Compiler.whileCount
    ifCount,    \* Compiler.ifCount
    cerr,       \* how Compiler.Run ended: "" (running or nil), "error", "crash"
    pc,         \* where the walk of Compiler.Run stands
    cls,        \* the ClassNode being compiled: its name and class variables
    last,       \* the node compiled by the last step and where its lines begin
    nSubs,      \* subroutines entered so far
    nStmts,     \* statements of subroutine bodies compiled so far
    input,      \* what the Tokenizer was created on: tokens, or bytes to lex
    tz,         \* ParseTree.tz: the tokens ReadToken has not returned yet
    peeked,     \* ParseTree.peeked: the two lookahead slots
    current,    \* ParseTree.current
    perr,       \* how parsing ended: "" (running or nil), "error", "crash"
    root,       \* the node the parser built
    lexer,      \* the Tokenizer: its reader, line and pos
    lexed,       \* the tokens ReadToken has returned so far
    lerr,       \* the error of the last ReadToken: "", "EOF", or another
    jack,       \* main of jack.go and its goroutines: one worker per file
    xb,         \* the XmlBuilder: the lines written and the stack of open tags
    got         \* the tokens ParseTree.next has returned; the last call, its result

tblVars == <<ret, adds, opened>>
genVars == <<sb, whileCount, ifCount, cerr, pc, cls, last, nSubs, nStmts>>
lexVars == <<lexer, lexed, lerr>>
auxVars == <<jack, xb, got>>
parseVars == <<input, tz, peeked, current, perr, root, lexer, lexed, lerr, jack, xb, got>>
vars == <<Tbl, ret, adds, opened, sb, whileCount, ifCount, cerr, pc, cls, last,
          nSubs, nStmts, input, tz, peeked, current, perr, root, lexer, lexed, lerr,
          jack, xb, got>>

(***************************************************************************)
(* Bounds of the model                                                     *)
(***************************************************************************)
MaxTables == 2
MaxVars == 3
StmMaxSubs == 1
StmMaxStmts == 1
ClsMaxSubs == 2
ClsMaxStmts == 1
MaxToks == 3
LblMaxSubs == 2
LblMaxStmts == 2
MaxExpToks == 5
ParseMaxStmts == 2
MaxPosBytes == 5
MaxLexBytes == 6
MaxWordBytes == 4
MaxRunPieces == 2
MaxFiles == 2
MaxXmlCalls == 5
MaxPeekToks == 4
DecMaxNames == 2

(***************************************************************************)
(* table.go                                                                *)
(***************************************************************************)
Field == "Field"
Static == "Static"
Arg == "Arg"
Local == "Local"

VarKind == {Field, Static, Arg, Local}

VarInfo(kind, vType, offset) == [Kind |-> kind, Type |-> vType, Offset |-> offset]

\* The zero value VarInfo{} that find returns beside an error.
ZeroVarInfo == VarInfo(Field, "", 0)

EmptyMap == [n \in {} |-> ZeroVarInfo]

NewSymbolTable(name) ==
    [Name |-> name, table |-> EmptyMap, counter |-> [k \in VarKind |-> 0]]

\* AddVar numbering from the incremented counter
STAddVar_OffsetAfterIncrement(st, kind, vType, name) ==
    IF name \in DOMAIN st.table
    THEN [st |-> st, err |-> TRUE]
    ELSE [st |-> [st EXCEPT
                    !.table = (name :> VarInfo(kind, vType, st.counter[kind] + 1)) @@ st.table,
                    !.counter[kind] = st.counter[kind] + 1],
          err |-> FALSE]

\* AddVar storing the entry before it looks for a duplicate
STAddVar_StoreBeforeCheck(st, kind, vType, name) ==
    [st |-> [st EXCEPT
               !.table = (name :> VarInfo(kind, vType, st.counter[kind])) @@ st.table,
               !.counter[kind] = st.counter[kind] + 1],
     err |-> name \in DOMAIN st.table]

\* SymbolTable.AddVar: [st |-> the table afterwards, err |-> whether it failed]
STAddVar(st, kind, vType, name) ==
    IF name \in DOMAIN st.table
    THEN [st |-> st, err |-> TRUE]
    ELSE [st |-> [st EXCEPT
                    !.table = (name :> VarInfo(kind, vType, st.counter[kind])) @@ st.table,
                    !.counter[kind] = st.counter[kind] + 1],
          err |-> FALSE]

\* SymbolTable.GetVarInfo
STGetVarInfo(st, name) ==
    IF name \in DOMAIN st.table
    THEN [vi |-> st.table[name], err |-> FALSE]
    ELSE [vi |-> ZeroVarInfo, err |-> TRUE]

\* SymbolTable.Count
STCount(st, kind) == st.counter[kind]

NewSymbolTableList == << >>

RECURSIVE findFrom(_, _, _)
\* the loop of SymbolTableList.find, from index i down to the outermost table
findFrom(list, name, i) ==
    IF i < 1
    THEN [vi |-> ZeroVarInfo, err |-> TRUE]
    ELSE LET r == STGetVarInfo(list[i], name)
         IN IF ~r.err THEN [vi |-> r.vi, err |-> FALSE]
            ELSE findFrom(list, name, i - 1)

RECURSIVE findOutermostFirst(_, _, _)
\* a lookup walking from the outermost table inwards
findOutermostFirst(list, name, i) ==
    IF i > Len(list)
    THEN [vi |-> ZeroVarInfo, err |-> TRUE]
    ELSE LET r == STGetVarInfo(list[i], name)
         IN IF ~r.err THEN [vi |-> r.vi, err |-> FALSE]
            ELSE findOutermostFirst(list, name, i + 1)

find_OutermostFirst(list, name) == findOutermostFirst(list, name, 1)

\* SymbolTableList.find
find(list, name) == findFrom(list, name, Len(list))

\* SymbolTableList.CreateTable
CreateTable(list, name) == Append(list, NewSymbolTable(name))

\* CloseTable dropping the oldest table
CloseTable_DropsOutermost(list) ==
    IF Len(list) > 0 THEN Tail(list) ELSE list

\* SymbolTableList.CloseTable
CloseTable(list) ==
    IF Len(list) > 0 THEN SubSeq(list, 1, Len(list) - 1) ELSE list

\* SymbolTableList.Len
ListLen(list) == Len(list)

\* SymbolTableList.Name: [val, panic]; the panic value is a string, not an error
ListName(list) ==
    IF Len(list) = 0 THEN [val |-> "", panic |-> TRUE]
    ELSE [val |-> list[Len(list)].Name, panic |-> FALSE]

\* ParentName answering with the innermost table's name
ParentName_Innermost(list) ==
    IF Len(list) <= 1 THEN [val |-> "", panic |-> TRUE]
    ELSE [val |-> list[Len(list)].Name, panic |-> FALSE]

\* SymbolTableList.ParentName: [val, panic]; the panic value is a string
ParentName(list) ==
    IF Len(list) <= 1 THEN [val |-> "", panic |-> TRUE]
    ELSE [val |-> list[Len(list) - 1].Name, panic |-> FALSE]

\* SymbolTableList.AddVar: [list, err]; err is "" (added), "panic" (the list
\* is empty: a string panic) or "dup" (the innermost table's error, panicked)
ListAddVar(list, kind, vType, name) ==
    IF Len(list) = 0
    THEN [list |-> list, err |-> "panic"]
    ELSE LET r == STAddVar(list[Len(list)], kind, vType, name)
         IN [list |-> [list EXCEPT ![Len(list)] = r.st],
             err |-> IF r.err THEN "dup" ELSE ""]

\* SymbolTableList.GetVarInfo: [vi, err]; err means it panicked with an error
ListGetVarInfo(list, name) == find(list, name)

\* SymbolTableList.Count
ListCount(list, kind) == STCount(list[Len(list)], kind)

\* SymbolTableList.IsVar
IsVar(list, name) == ~find(list, name).err

(***************************************************************************)
(* Tokens and parse-tree nodes (token.go, nodes.go)                        *)
(***************************************************************************)
TokenKeyword == "keyword"
TokenIdentifier == "identifier"
TokenSymbol == "symbol"
TokenIntegerConst == "integerConstant"
TokenStringConst == "stringConstant"

\* A token: its type and its value.  The value of a string constant is kept
\* as the sequence of its bytes, every other value as a string.
Tok(type, val) == [type |-> type, val |-> val]

\* the nil Token of an absent optional field
NilToken == [type |-> "nil", val |-> ""]

GetValue(tk) == tk.val

\* the nil pointer of an absent optional child node
NilNode == [NodeType |-> "nil"]

IsNil(node) == node.NodeType = "nil"

NewClassVarDecNode(vc, vt, names) ==
    [NodeType |-> "ClassVarDec", Kind |-> vc, VarType |-> vt, Names |-> names]

NewSubroutineDecHead(sc, rt, name, param, varDecs) ==
    [NodeType |-> "SubroutineDec", SbrKind |-> sc, ReturnType |-> rt, Name |-> name,
     ParamList |-> param, VarDec |-> varDecs]

NewSubroutineBodyNode(statm, varDecs) ==
    [NodeType |-> "SubroutineBody", VarDec |-> varDecs, Statm |-> statm]

NewSubroutineDecNode(sc, rt, name, param, b) ==
    [NodeType |-> "SubroutineDec", SbrKind |-> sc, ReturnType |-> rt, Name |-> name,
     ParamList |-> param, Body |-> b]

NewClassNode(name, varDecs, sbrDecs) ==
    [NodeType |-> "Class", Name |-> name, VarDec |-> varDecs, SbrDec |-> sbrDecs]

NewParameterListNode(varTypes, varNames) ==
    [NodeType |-> "ParameterList", varTypes |-> varTypes, varNames |-> varNames]

NewVarDecNode(vType, ids) ==
    [NodeType |-> "VarDec", VarType |-> vType, Ids |-> ids]

NewLetStatementNode(varName, arrExp, valExp) ==
    [NodeType |-> "LetStatement", VarName |-> varName, ArrayExp |-> arrExp,
     ValueExp |-> valExp]

NewStatementsNode(stList) == [NodeType |-> "Statements", StList |-> stList]

NewIfStatementNode(ifExpr, ifSt, elseSt) ==
    [NodeType |-> "IfStatement", IfExpr |-> ifExpr, IfStat |-> ifSt,
     ElseStat |-> elseSt]

NewWhileStatementNode(expr, stat) ==
    [NodeType |-> "WhileStatement", Expr |-> expr, Stat |-> stat]

NewDoStatementNode(call) == [NodeType |-> "DoStatement", Call |-> call]

NewReturnNode(expr) == [NodeType |-> "ReturnStatement", Expr |-> expr]

NewExpressionNode(term, ops, opTerms) ==
    [NodeType |-> "Expression", term |-> term, ops |-> ops, opTerms |-> opTerms]

NewExpressionListNode(exprs) == [NodeType |-> "ExpressionList", Exprs |-> exprs]

NewClassSubroutineCallNode(prefix, sbrName, params) ==
    [NodeType |-> "SubroutineCall", Prefix |-> prefix, SubroutineName |-> sbrName,
     Params |-> params]

NewSubroutineCallNode(sbrName, params) ==
    [NodeType |-> "SubroutineCall", Prefix |-> NilToken, SubroutineName |-> sbrName,
     Params |-> params]

NewIntConstTermNode(intConst) ==
    [NodeType |-> "Term", termType |-> "termNodeIntConst", val |-> intConst]

NewStrConstTermNode(strConst) ==
    [NodeType |-> "Term", termType |-> "termNodeStrConst", val |-> strConst]

NewKeyWordConstTermNode(jConst) ==
    [NodeType |-> "Term", termType |-> "termNodeKeyWordConst", val |-> jConst]

NewThisConstTermNode(this) ==
    [NodeType |-> "Term", termType |-> "termNodeThis", val |-> this]

NewVarTermNode(jVar) ==
    [NodeType |-> "Term", termType |-> "termNodeVar", val |-> jVar]

NewArrayTermNode(jVar, idx) ==
    [NodeType |-> "Term", termType |-> "termNodeArray", val |-> jVar, arrayIdx |-> idx]

NewExpressionTermNode(exp) ==
    [NodeType |-> "Term", termType |-> "termNodeExpr", exp |-> exp]

NewCallTermNode(call) ==
    [NodeType |-> "Term", termType |-> "termNodeCall", call |-> call]

NewUnaryTermNode(op, term) ==
    [NodeType |-> "Term", termType |-> "termNodeUnary", unaryOp |-> op,
     unaryTerm |-> term]

(***************************************************************************)
(* compiler.go: the Compiler threaded through the walk as a record         *)
(*   [sb, whileCount, ifCount, Tbl, err]                                   *)
(* sb is the lines written so far.  err is "" while the walk runs, "error" *)
(* once a panic carrying an error unwinds it (Run returns that error) and  *)
(* "crash" once a panic carrying a string or a runtime error unwinds it    *)
(* (recover re-panics).  Nothing runs after a panic but the deferred       *)
(* CloseTable calls.                                                       *)
(***************************************************************************)
ConstSegm == "constant"
LocalSegm == "local"
ArgSegm == "argument"
ThisSegm == "this"
ThatSegm == "that"
TempSegm == "temp"
StaticSegm == "static"
PointerSegm == "pointer"

vKinds == (Field :> ThisSegm) @@ (Arg :> ArgSegm) @@ (Local :> LocalSegm)
            @@ (Static :> StaticSegm)

GetSegment(vk) == vKinds[vk]

binaryOps == ("+" :> "add") @@ ("-" :> "sub") @@ ("&" :> "and") @@ ("|" :> "or")
               @@ ("=" :> "eq") @@ (">" :> "gt") @@ ("<" :> "lt")

sysBinaryOps == ("*" :> "Math.multiply") @@ ("/" :> "Math.divide")

unaryOps == ("~" :> "not") @@ ("-" :> "neg")

\* strconv.Itoa
Itoa(n) == ToString(n)

NewCompiler ==
    [sb |-> << >>, whileCount |-> 0, ifCount |-> 0, Tbl |-> NewSymbolTableList,
     err |-> ""]

Running(c) == c.err = ""

\* Compiler.errorf / Compiler.error: panic with an error
Cerror(c) == IF Running(c) THEN [c EXCEPT !.err = "error"] ELSE c

\* a panic with a string value, or a runtime error
Crash(c) == IF Running(c) THEN [c EXCEPT !.err = "crash"] ELSE c

\* sb.WriteString of one line
WriteLine(c, line) == IF Running(c) THEN [c EXCEPT !.sb = Append(@, line)] ELSE c

Push(c, segm, offset) == WriteLine(c, "push " \o segm \o " " \o offset)

Pop(c, segm, offset) == WriteLine(c, "pop " \o segm \o " " \o offset)

Function(c, name, localVarCount) ==
    WriteLine(c, "function " \o name \o " " \o Itoa(localVarCount))

Call(c, name, argsCount) == WriteLine(c, "call " \o name \o " " \o Itoa(argsCount))

Return(c) == WriteLine(c, "return")

BinaryOp(c, symbol) ==
    IF symbol \in DOMAIN binaryOps THEN WriteLine(c, binaryOps[symbol])
    ELSE IF symbol \in DOMAIN sysBinaryOps THEN Call(c, sysBinaryOps[symbol], 2)
    ELSE Cerror(c)

UnaryOp(c, symbol) ==
    IF symbol \in DOMAIN unaryOps THEN WriteLine(c, unaryOps[symbol])
    ELSE Cerror(c)

Label(c, name) == WriteLine(c, "label " \o name)

Goto(c, label) == WriteLine(c, "goto " \o label)

IfGoto(c, label) == WriteLine(c, "if-goto " \o label)

\* OpenWhile handing out the same counter value again
OpenWhile_NoIncrement(c) ==
    LET fn == ListName(c.Tbl)
    IN IF ~Running(c) THEN [c |-> c, begin |-> "", end |-> ""]
       ELSE IF fn.panic THEN [c |-> Crash(c), begin |-> "", end |-> ""]
       ELSE [c |-> c,
             begin |-> fn.val \o "$WHILE_BEGIN_" \o Itoa(c.whileCount),
             end |-> fn.val \o "$WHILE_END_" \o Itoa(c.whileCount)]

\* Compiler.OpenWhile: [c, begin, end]
OpenWhile(c) ==
    LET fn == ListName(c.Tbl)
    IN IF ~Running(c) THEN [c |-> c, begin |-> "", end |-> ""]
       ELSE IF fn.panic THEN [c |-> Crash(c), begin |-> "", end |-> ""]
       ELSE [c |-> [c EXCEPT !.whileCount = @ + 1],
             begin |-> fn.val \o "$WHILE_BEGIN_" \o Itoa(c.whileCount),
             end |-> fn.val \o "$WHILE_END_" \o Itoa(c.whileCount)]

\* Compiler.OpenIf: [c, els, end]
OpenIf(c) ==
    LET fn == ListName(c.Tbl)
    IN IF ~Running(c) THEN [c |-> c, els |-> "", end |-> ""]
       ELSE IF fn.panic THEN [c |-> Crash(c), els |-> "", end |-> ""]
       ELSE [c |-> [c EXCEPT !.ifCount = @ + 1],
             els |-> fn.val \o "$ELSE_" \o Itoa(c.ifCount),
             end |-> fn.val \o "$IF_END_" \o Itoa(c.ifCount)]

\* c.Tbl.AddVar inside the walk
CAddVar(c, kind, vType, name) ==
    IF ~Running(c) THEN c
    ELSE LET r == ListAddVar(c.Tbl, kind, vType, name)
         IN IF r.err = "panic" THEN Crash(c)
            ELSE IF r.err = "dup" THEN Cerror([c EXCEPT !.Tbl = r.list])
            ELSE [c EXCEPT !.Tbl = r.list]

\* c.Tbl.GetVarInfo inside the walk: [c, vi]
CGetVarInfo(c, name) ==
    LET r == ListGetVarInfo(c.Tbl, name)
    IN IF ~Running(c) THEN [c |-> c, vi |-> ZeroVarInfo]
       ELSE IF r.err THEN [c |-> Cerror(c), vi |-> ZeroVarInfo]
       ELSE [c |-> c, vi |-> r.vi]

\* c.Tbl.CreateTable / c.Tbl.CloseTable inside the walk; the deferred
\* CloseTable runs during a panic too
CCreateTable(c, name) ==
    IF Running(c) THEN [c EXCEPT !.Tbl = CreateTable(@, name)] ELSE c

CCloseTable(c) == [c EXCEPT !.Tbl = CloseTable(@)]

(***************************************************************************)
(* nodes.go: Compile of each node                                          *)
(***************************************************************************)
RECURSIVE AddVarsFrom(_, _, _, _, _)
\* the loop "for each name: c.Tbl.AddVar(kind, vType, name)" from index i
AddVarsFrom(c, kind, vType, names, i) ==
    IF i > Len(names) THEN c
    ELSE AddVarsFrom(CAddVar(c, kind, vType, GetValue(names[i])), kind, vType,
                     names, i + 1)

\* ClassVarDecNode.Compile registering every class variable as a field
ClassVarDecCompile_AllFields(c, cvd) ==
    AddVarsFrom(c, Field, GetValue(cvd.VarType), cvd.Names, 1)

\* ClassVarDecNode.Compile
ClassVarDecCompile(c, cvd) ==
    LET vk == IF GetValue(cvd.Kind) = "field" THEN Field ELSE Static
    IN AddVarsFrom(c, vk, GetValue(cvd.VarType), cvd.Names, 1)

RECURSIVE ClassVarDecsCompile(_, _, _)
\* the loop over cn.VarDec of ClassNode.Compile
ClassVarDecsCompile(c, varDecs, i) ==
    IF i > Len(varDecs) THEN c
    ELSE ClassVarDecsCompile(ClassVarDecCompile(c, varDecs[i]), varDecs, i + 1)

RECURSIVE ParameterListFrom(_, _, _)
\* the loop of ParameterListNode.Compile from index i
ParameterListFrom(c, pln, i) ==
    IF i > Len(pln.varTypes) THEN c
    ELSE IF i > Len(pln.varNames) THEN Crash(c)
    ELSE ParameterListFrom(
            CAddVar(c, Arg, GetValue(pln.varTypes[i]), GetValue(pln.varNames[i])),
            pln, i + 1)

\* ParameterListNode.Compile
ParameterListCompile(c, pln) == ParameterListFrom(c, pln, 1)

\* VarDecNode.Compile
VarDecCompile(c, vdn) == AddVarsFrom(c, Local, GetValue(vdn.VarType), vdn.Ids, 1)

RECURSIVE VarDecsCompile(_, _, _)
\* the loop over sbn.VarDec of SubroutineBodyNode.Compile
VarDecsCompile(c, varDecs, i) ==
    IF i > Len(varDecs) THEN c
    ELSE VarDecsCompile(VarDecCompile(c, varDecs[i]), varDecs, i + 1)

RECURSIVE LocalVarLenFrom(_, _)
LocalVarLenFrom(varDecs, i) ==
    IF i > Len(varDecs) THEN 0
    ELSE Len(varDecs[i].Ids) + LocalVarLenFrom(varDecs, i + 1)

\* SubroutineBodyNode.LocalVarLen
LocalVarLen(varDecs) == LocalVarLenFrom(varDecs, 1)

\* the lines String.appendChar is fed with: two per byte of the constant
StrConstLines(bytes) ==
    [j \in 1..(2 * Len(bytes)) |->
        IF j % 2 = 1 THEN "push " \o ConstSegm \o " " \o Itoa(bytes[(j + 1) \div 2])
        ELSE "call String.appendChar 2"]

RECURSIVE TermCompile(_, _)
RECURSIVE ExpressionCompile(_, _)
RECURSIVE ExpressionOpsFrom(_, _, _)
RECURSIVE ExpressionListFrom(_, _, _)
RECURSIVE SubroutineCallCompile(_, _)

\* the loop of ExpressionListNode.Compile from index i
ExpressionListFrom(c, exprs, i) ==
    IF i > Len(exprs) THEN c
    ELSE ExpressionListFrom(ExpressionCompile(c, exprs[i]), exprs, i + 1)

\* ExpressionListNode.Compile
ExpressionListCompile(c, eln) == ExpressionListFrom(c, eln.Exprs, 1)

\* the loop of ExpressionNode.Compile emitting each operator before its term
ExpressionOpsFrom_OpBeforeTerm(c, en, i) ==
    IF i > Len(en.ops) THEN c
    ELSE ExpressionOpsFrom(
            TermCompile(BinaryOp(c, GetValue(en.ops[i])), en.opTerms[i]), en, i + 1)

\* the loop over en.ops of ExpressionNode.Compile from index i
ExpressionOpsFrom(c, en, i) ==
    IF i > Len(en.ops) THEN c
    ELSE ExpressionOpsFrom(
            BinaryOp(TermCompile(c, en.opTerms[i]), GetValue(en.ops[i])), en, i + 1)

\* ExpressionNode.Compile
ExpressionCompile(c, en) ==
    IF Len(en.ops) # Len(en.opTerms) THEN Crash(c)
    ELSE ExpressionOpsFrom(TermCompile(c, en.term), en, 1)

\* SubroutineCallNode.Compile
SubroutineCallCompile(c, scn) ==
    LET c1 == ExpressionListCompile(c, scn.Params)
        sbr == GetValue(scn.SubroutineName)
        n == Len(scn.Params.Exprs)
    IN IF scn.Prefix # NilToken
       THEN LET prefix == GetValue(scn.Prefix)
            IN IF IsVar(c1.Tbl, prefix)
               THEN LET g == CGetVarInfo(c1, prefix)
                        c2 == Push(g.c, GetSegment(g.vi.Kind), Itoa(g.vi.Offset))
                    IN Call(c2, g.vi.Type \o "." \o sbr, 1 + n)
               ELSE Call(c1, prefix \o "." \o sbr, n)
       ELSE LET className == ParentName(c1.Tbl)
            IN IF className.panic THEN Crash(c1)
               ELSE Call(Push(c1, PointerSegm, "0"), className.val \o "." \o sbr, 1 + n)

\* TermNode.Compile
TermCompile(c, tn) ==
    CASE tn.termType = "termNodeIntConst" -> Push(c, ConstSegm, GetValue(tn.val))
      [] tn.termType = "termNodeKeyWordConst" ->
            LET c1 == Push(c, ConstSegm, "0")
            IN IF GetValue(tn.val) = "true" THEN UnaryOp(c1, "~") ELSE c1
      [] tn.termType = "termNodeThis" -> Push(c, PointerSegm, "0")
      [] tn.termType = "termNodeVar" ->
            LET g == CGetVarInfo(c, GetValue(tn.val))
            IN Push(g.c, GetSegment(g.vi.Kind), Itoa(g.vi.Offset))
      [] tn.termType = "termNodeExpr" -> ExpressionCompile(c, tn.exp)
      [] tn.termType = "termNodeUnary" ->
            UnaryOp(TermCompile(c, tn.unaryTerm), GetValue(tn.unaryOp))
      [] tn.termType = "termNodeCall" -> SubroutineCallCompile(c, tn.call)
      [] tn.termType = "termNodeStrConst" ->
            LET bytes == GetValue(tn.val)
                c1 == Push(c, ConstSegm, Itoa(Len(bytes)))
                c2 == Call(c1, "String.new", 1)
            IN IF Running(c2) THEN [c2 EXCEPT !.sb = @ \o StrConstLines(bytes)] ELSE c2
      [] tn.termType = "termNodeArray" ->
            LET g == CGetVarInfo(c, GetValue(tn.val))
                c1 == Push(g.c, GetSegment(g.vi.Kind), Itoa(g.vi.Offset))
                c2 == ExpressionCompile(c1, tn.arrayIdx)
                c3 == BinaryOp(c2, "+")
                c4 == Pop(c3, PointerSegm, "1")
            IN Push(c4, ThatSegm, "0")
      [] OTHER -> c

\* LetStatementNode.Compile setting THAT before the right expression runs
LetStatementCompile_PointerBeforeValue(c, lsn) ==
    LET g == CGetVarInfo(c, GetValue(lsn.VarName))
        segm == GetSegment(g.vi.Kind)
        off == Itoa(g.vi.Offset)
    IN IF IsNil(lsn.ArrayExp)
       THEN Pop(ExpressionCompile(g.c, lsn.ValueExp), segm, off)
       ELSE LET c1 == Push(g.c, segm, off)
                c2 == ExpressionCompile(c1, lsn.ArrayExp)
                c3 == BinaryOp(c2, "+")
                c4 == Pop(c3, PointerSegm, "1")
                c5 == ExpressionCompile(c4, lsn.ValueExp)
            IN Pop(c5, ThatSegm, "0")

\* LetStatementNode.Compile
LetStatementCompile(c, lsn) ==
    LET g == CGetVarInfo(c, GetValue(lsn.VarName))
        segm == GetSegment(g.vi.Kind)
        off == Itoa(g.vi.Offset)
    IN IF IsNil(lsn.ArrayExp)
       THEN Pop(ExpressionCompile(g.c, lsn.ValueExp), segm, off)
       ELSE LET c1 == Push(g.c, segm, off)
                c2 == ExpressionCompile(c1, lsn.ArrayExp)
                c3 == BinaryOp(c2, "+")
                c4 == ExpressionCompile(c3, lsn.ValueExp)
                c5 == Pop(c4, TempSegm, "0")
                c6 == Pop(c5, PointerSegm, "1")
                c7 == Push(c6, TempSegm, "0")
            IN Pop(c7, ThatSegm, "0")

\* DoStatementNode.Compile
DoStatementCompile(c, ds) == Pop(SubroutineCallCompile(c, ds.Call), TempSegm, "0")

\* ReturnStatementNode.Compile
ReturnStatementCompile(c, rsn) ==
    Return(IF ~IsNil(rsn.Expr) THEN ExpressionCompile(c, rsn.Expr)
           ELSE Push(c, ConstSegm, "0"))

RECURSIVE StatementCompile(_, _)
RECURSIVE StatementsFrom(_, _, _)

\* the loop of StatementsNode.Compile from index i
StatementsFrom(c, stList, i) ==
    IF i > Len(stList) THEN c
    ELSE StatementsFrom(StatementCompile(c, stList[i]), stList, i + 1)

\* StatementsNode.Compile
StatementsCompile(c, sn) == StatementsFrom(c, sn.StList, 1)

\* IfStatementNode.Compile jumping to the else label whether or not an else
\* branch exists
IfStatementCompile_AlwaysElseLabel(c, ifn) ==
    LET o == OpenIf(c)
        c1 == UnaryOp(ExpressionCompile(o.c, ifn.IfExpr), "~")
        c2 == IfGoto(c1, o.els)
        c3 == StatementsCompile(c2, ifn.IfStat)
        c4 == IF ~IsNil(ifn.ElseStat)
              THEN StatementsCompile(Label(Goto(c3, o.end), o.els), ifn.ElseStat)
              ELSE c3
    IN Label(c4, o.end)

\* IfStatementNode.Compile
IfStatementCompile(c, ifn) ==
    LET o == OpenIf(c)
        c1 == UnaryOp(ExpressionCompile(o.c, ifn.IfExpr), "~")
        c2 == IF ~IsNil(ifn.ElseStat) THEN IfGoto(c1, o.els) ELSE IfGoto(c1, o.end)
        c3 == StatementsCompile(c2, ifn.IfStat)
        c4 == IF ~IsNil(ifn.ElseStat)
              THEN StatementsCompile(Label(Goto(c3, o.end), o.els), ifn.ElseStat)
              ELSE c3
    IN Label(c4, o.end)

\* WhileStatementNode.Compile
WhileStatementCompile(c, wsn) ==
    LET o == OpenWhile(c)
        c1 == Label(o.c, o.begin)
        c2 == UnaryOp(ExpressionCompile(c1, wsn.Expr), "~")
        c3 == IfGoto(c2, o.end)
        c4 == StatementsCompile(c3, wsn.Stat)
    IN Label(Goto(c4, o.begin), o.end)

\* st.Compile(c): the dispatch on the statement's dynamic type
StatementCompile(c, st) ==
    CASE st.NodeType = "LetStatement" -> LetStatementCompile(c, st)
      [] st.NodeType = "IfStatement" -> IfStatementCompile(c, st)
      [] st.NodeType = "WhileStatement" -> WhileStatementCompile(c, st)
      [] st.NodeType = "DoStatement" -> DoStatementCompile(c, st)
      [] st.NodeType = "ReturnStatement" -> ReturnStatementCompile(c, st)

\* SubroutineDecNode.Compile registering this after the declared parameters
SubroutineDecEnter_ThisAfterParams(c, sdn) ==
    IF Len(c.Tbl) = 0 THEN Crash(c)
    ELSE
    LET fieldsCount == ListCount(c.Tbl, Field)
        className == ListName(c.Tbl).val
        fn == className \o "." \o GetValue(sdn.Name)
        c1 == CCreateTable(c, fn)
        c2 == Function(c1, fn, LocalVarLen(sdn.VarDec))
        c3 == IF GetValue(sdn.SbrKind) = "constructor"
              THEN Pop(Call(Push(c2, ConstSegm, Itoa(fieldsCount)), "Memory.alloc", 1),
                       PointerSegm, "0")
              ELSE c2
        c4 == ParameterListCompile(c3, sdn.ParamList)
        c5 == IF GetValue(sdn.SbrKind) = "method"
              THEN Pop(Push(CAddVar(c4, Arg, className, "this"), ArgSegm, "0"),
                       PointerSegm, "0")
              ELSE c4
    IN VarDecsCompile(c5, sdn.VarDec, 1)

\* SubroutineDecNode.Compile up to the statements of the body: the table of
\* the subroutine, the function line, the prologue of its kind, the
\* parameters and the local variables
SubroutineDecEnter(c, sdn) ==
    IF Len(c.Tbl) = 0 THEN Crash(c)
    ELSE
    LET fieldsCount == ListCount(c.Tbl, Field)
        className == ListName(c.Tbl).val
        fn == className \o "." \o GetValue(sdn.Name)
        c1 == CCreateTable(c, fn)
        c2 == Function(c1, fn, LocalVarLen(sdn.VarDec))
        c3 == IF GetValue(sdn.SbrKind) = "constructor"
              THEN Pop(Call(Push(c2, ConstSegm, Itoa(fieldsCount)), "Memory.alloc", 1),
                       PointerSegm, "0")
              ELSE c2
        c4 == IF GetValue(sdn.SbrKind) = "method"
              THEN Pop(Push(CAddVar(c3, Arg, className, "this"), ArgSegm, "0"),
                       PointerSegm, "0")
              ELSE c3
        c5 == ParameterListCompile(c4, sdn.ParamList)
    IN VarDecsCompile(c5, sdn.VarDec, 1)

\* ClassNode.Compile up to its subroutines: the table of the class and the
\* class variables
ClassEnter(c, name, varDecs) ==
    ClassVarDecsCompile(CCreateTable(c, GetValue(name)), varDecs, 1)

(***************************************************************************)
(* ParseTree: the recursive-descent parser over the Tokenizer's tokens.    *)
(* A ParseTree is [tz, peeked, current, err]; every method is a no-op once *)
(* a panic is under way, and returns the ParseTree beside its result.      *)
(***************************************************************************)
NewParseTree(tokens) ==
    [tz |-> tokens, peeked |-> <<NilToken, NilToken>>, current |-> NilToken,
     err |-> ""]

\* t.errorf: panic with an error, which ParseTree.recover turns into the
\* error Parse returns
Perror(p) == [p EXCEPT !.err = "error"]

\* a runtime error (nil dereference), which ParseTree.recover panics again
Pcrash(p) == [p EXCEPT !.err = "crash"]

isTokenType(tk, tt) == tk # NilToken /\ tk.type = tt

isTokenOne(tk, tt, val) == isTokenType(tk, tt) /\ GetValue(tk) = val

isTokenAny(tk, tt, vals) == isTokenType(tk, tt) /\ GetValue(tk) \in vals

\* The one element of a set of one element.  A method binds the result of
\* each of its steps as the element of such a set, so that the step is
\* computed once; the steps of a method are listed last step first, each
\* ": result \in { step }" closing the set of what follows it in the code.
The(S) == CHOOSE x \in S : TRUE

\* a next that forgets the second lookahead slot, for comparison
Pnext_DropsSecond(t) ==
    The({ IF p.err # "" THEN [p |-> p, tok |-> NilToken]
          ELSE IF p.peeked[1] # NilToken
          THEN [p |-> [p EXCEPT !.current = p.peeked[1],
                                !.peeked = <<NilToken, NilToken>>],
                tok |-> p.peeked[1]]
          ELSE IF p.tz = << >>
          THEN [p |-> Perror([p EXCEPT !.current = NilToken]), tok |-> NilToken]
          ELSE [p |-> [p EXCEPT !.current = Head(p.tz), !.tz = Tail(p.tz)],
                tok |-> Head(p.tz)]
        : p \in {t} })

\* ParseTree.next: [p, tok]
Pnext(t) ==
    The({ IF p.err # "" THEN [p |-> p, tok |-> NilToken]
          ELSE IF p.peeked[2] # NilToken
          THEN [p |-> [p EXCEPT !.current = p.peeked[1],
                                !.peeked = <<p.peeked[2], NilToken>>],
                tok |-> p.peeked[1]]
          ELSE IF p.peeked[1] # NilToken
          THEN [p |-> [p EXCEPT !.current = p.peeked[1],
                                !.peeked = <<NilToken, p.peeked[2]>>],
                tok |-> p.peeked[1]]
          ELSE IF p.tz = << >>
          THEN [p |-> Perror([p EXCEPT !.current = NilToken]), tok |-> NilToken]
          ELSE [p |-> [p EXCEPT !.current = Head(p.tz), !.tz = Tail(p.tz)],
                tok |-> Head(p.tz)]
        : p \in {t} })

\* ParseTree.peek(fw), fw in {0, 1}: [p, tok]; at the end of the input the
\* slot stays nil
Ppeek(t, fw) ==
    The({ IF p.err # "" THEN [p |-> p, tok |-> NilToken]
          ELSE IF fw < 0 \/ fw > 1 THEN [p |-> Pcrash(p), tok |-> NilToken]
          ELSE IF p.peeked[fw + 1] # NilToken THEN [p |-> p, tok |-> p.peeked[fw + 1]]
          ELSE IF p.tz = << >> THEN [p |-> p, tok |-> NilToken]
          ELSE [p |-> [p EXCEPT !.peeked[fw + 1] = Head(p.tz), !.tz = Tail(p.tz)],
                tok |-> Head(p.tz)]
        : p \in {t} })

\* ParseTree.feed
Pfeed(p) == Pnext(p)

\* ParseTree.feedToken(tt, val)
PfeedToken(t, tt, val) ==
    The({ IF tk.p.err # "" THEN tk
          ELSE IF tk.tok = NilToken THEN [p |-> Pcrash(tk.p), tok |-> NilToken]
          ELSE IF tk.tok.type # tt \/ (val # "" /\ GetValue(tk.tok) # val)
               THEN [p |-> Perror(tk.p), tok |-> tk.tok]
          ELSE tk
        : tk \in { Pnext(t) } })

ExpressionOps == {"+", "-", "*", "/", "&", "|", "<", ">", "="}

RECURSIVE Pcall(_, _)

\* t.term(), t.expression(), t.expressionList(), t.subroutineCall(),
\* t.statements(), t.ifStatement(), t.whileStatement(): a call of the
\* ParseTree method, [p, node]
Pterm(p) == Pcall("term", p)

Pexpression(p) == Pcall("expression", p)

PexpressionList(p) == Pcall("expressionList", p)

PsubroutineCall(p) == Pcall("subroutineCall", p)

Pstatements(p) == Pcall("statements", p)

PifStatement(p) == Pcall("ifStatement", p)

PwhileStatement(p) == Pcall("whileStatement", p)

RECURSIVE expressionOps(_, _)
\* the loop of ParseTree.expression: (op term)* appended to en
expressionOps(t, en0) ==
    The({ IF isTokenAny(k.tok, TokenSymbol, ExpressionOps)
          THEN The({ The({
                   expressionOps(nextTerm.p,
                       NewExpressionNode(en.term, Append(en.ops, opToken.tok),
                                         Append(en.opTerms, nextTerm.node)))
                 : nextTerm \in { Pterm(opToken.p) } })
                 : opToken \in { Pfeed(k.p) } })
          ELSE [p |-> k.p, node |-> en]
        : k \in { Ppeek(t, 0) }, en \in { en0 } })

\* ParseTree.expression
expression(p) ==
    The({ expressionOps(term.p, NewExpressionNode(term.node, << >>, << >>))
        : term \in { Pterm(p) } })

RECURSIVE expressionListMore(_, _)
\* the loop of ParseTree.expressionList: (',' expression)* appended to exprs
expressionListMore(t, exprs0) ==
    The({ IF isTokenOne(k.tok, TokenSymbol, ",")
          THEN The({ expressionListMore(addExpr.p, Append(exprs, addExpr.node))
                   : addExpr \in { Pexpression(Pfeed(k.p).p) } })
          ELSE [p |-> k.p, node |-> NewExpressionListNode(exprs)]
        : k \in { Ppeek(t, 0) }, exprs \in { exprs0 } })

\* ParseTree.expressionList
expressionList(p) ==
    The({ IF ~isTokenOne(k.tok, TokenSymbol, ")")
          THEN The({ expressionListMore(firstExpr.p, <<firstExpr.node>>)
                   : firstExpr \in { Pexpression(k.p) } })
          ELSE expressionListMore(k.p, << >>)
        : k \in { Ppeek(p, 0) } })

\* ParseTree.subroutineCall
subroutineCall(p) ==
    The({ The({ The({ The({ The({
        [p |-> closed,
         node |-> IF closed.err # "" THEN NilNode
                  ELSE IF isTokenOne(k.tok, TokenSymbol, ".")
                  THEN NewClassSubroutineCallNode(name.tok, sbrName.tok, params.node)
                  ELSE NewSubroutineCallNode(sbrName.tok, params.node)]
      : closed \in { PfeedToken(params.p, TokenSymbol, ")").p } })
      : params \in { PexpressionList(PfeedToken(sbrName.p, TokenSymbol, "(").p) } })
      : sbrName \in { IF isTokenOne(k.tok, TokenSymbol, ".")
                      THEN PfeedToken(Pfeed(k.p).p, TokenIdentifier, "")
                      ELSE [p |-> k.p, tok |-> name.tok] } })
      : k \in { Ppeek(name.p, 0) } })
      : name \in { PfeedToken(p, TokenIdentifier, "") } })

\* ParseTree.term; the cases are tried in the order of the switch, fed is
\* the token t.feed() returns in the cases that feed the first token
term(p) ==
    The({ The({ The({
        IF isTokenType(pFirst, TokenIntegerConst)
        THEN [p |-> fed.p, node |-> NewIntConstTermNode(fed.tok)]
        ELSE IF isTokenType(pFirst, TokenStringConst)
        THEN [p |-> fed.p, node |-> NewStrConstTermNode(fed.tok)]
        ELSE IF isTokenAny(pFirst, TokenKeyword, {"true", "false", "null", "this"})
        THEN [p |-> fed.p, node |-> NewKeyWordConstTermNode(fed.tok)]
        ELSE IF isTokenOne(pFirst, TokenKeyword, "this")
        THEN [p |-> fed.p, node |-> NewThisConstTermNode(fed.tok)]
        ELSE IF isTokenAny(pFirst, TokenSymbol, {"-", "~"})
        THEN The({ [p |-> childTerm.p,
                    node |-> NewUnaryTermNode(fed.tok, childTerm.node)]
                 : childTerm \in { Pterm(fed.p) } })
        ELSE IF isTokenOne(pFirst, TokenSymbol, "(")
        THEN The({ [p |-> PfeedToken(expr.p, TokenSymbol, ")").p,
                    node |-> NewExpressionTermNode(expr.node)]
                 : expr \in { Pexpression(fed.p) } })
        ELSE IF isTokenType(pFirst, TokenIdentifier)
        THEN The({ IF isTokenOne(k1.tok, TokenSymbol, "[")
                   THEN The({ The({
                            [p |-> PfeedToken(expr.p, TokenSymbol, "]").p,
                             node |-> NewArrayTermNode(ident.tok, expr.node)]
                          : expr \in { Pexpression(Pfeed(ident.p).p) } })
                          : ident \in { Pfeed(k1.p) } })
                   ELSE IF isTokenAny(k1.tok, TokenSymbol, {"(", "."})
                   THEN The({ [p |-> call.p, node |-> NewCallTermNode(call.node)]
                            : call \in { PsubroutineCall(k1.p) } })
                   ELSE The({ [p |-> ident.p, node |-> NewVarTermNode(ident.tok)]
                            : ident \in { Pfeed(k1.p) } })
                 : k1 \in { Ppeek(k.p, 1) } })
        ELSE [p |-> Perror(k.p), node |-> NilNode]
      : fed \in { Pfeed(k.p) } })
      : pFirst \in { k.tok } })
      : k \in { Ppeek(p, 0) } })

\* ParseTree.letStatement
letStatement(p) ==
    The({ The({ The({ The({
        [p |-> PfeedToken(valExpr.p, TokenSymbol, ";").p,
         node |-> NewLetStatementNode(varNameToken.tok, arrExpr.node, valExpr.node)]
      : valExpr \in { Pexpression(PfeedToken(
                         IF isTokenOne(k.tok, TokenSymbol, "[")
                         THEN PfeedToken(arrExpr.p, TokenSymbol, "]").p
                         ELSE arrExpr.p,
                         TokenSymbol, "=").p) } })
      : arrExpr \in { IF isTokenOne(k.tok, TokenSymbol, "[")
                      THEN Pexpression(Pfeed(k.p).p)
                      ELSE [p |-> k.p, node |-> NilNode] } })
      : k \in { Ppeek(varNameToken.p, 0) } })
      : varNameToken \in { PfeedToken(PfeedToken(p, TokenKeyword, "let").p,
                                      TokenIdentifier, "") } })

\* '{' statements '}'
statementsBlock(p) ==
    The({ [p |-> PfeedToken(st.p, TokenSymbol, "}").p, node |-> st.node]
        : st \in { Pstatements(PfeedToken(p, TokenSymbol, "{").p) } })

\* ParseTree.ifStatement
ifStatement(p) ==
    The({ The({ The({ The({
        [p |-> elseSt.p,
         node |-> NewIfStatementNode(ifExpr.node, ifSt.node, elseSt.node)]
      : elseSt \in { IF isTokenOne(k.tok, TokenKeyword, "else")
                     THEN statementsBlock(Pfeed(k.p).p)
                     ELSE [p |-> k.p, node |-> NilNode] } })
      : k \in { Ppeek(ifSt.p, 0) } })
      : ifSt \in { statementsBlock(PfeedToken(ifExpr.p, TokenSymbol, ")").p) } })
      : ifExpr \in { Pexpression(PfeedToken(PfeedToken(p, TokenKeyword, "if").p,
                                            TokenSymbol, "(").p) } })

\* ParseTree.whileStatement
whileStatement(p) ==
    The({ The({
        [p |-> st.p, node |-> NewWhileStatementNode(expr.node, st.node)]
      : st \in { statementsBlock(PfeedToken(expr.p, TokenSymbol, ")").p) } })
      : expr \in { Pexpression(PfeedToken(PfeedToken(p, TokenKeyword, "while").p,
                                          TokenSymbol, "(").p) } })

\* ParseTree.doStatement
doStatement(p) ==
    The({ [p |-> PfeedToken(call.p, TokenSymbol, ";").p,
           node |-> NewDoStatementNode(call.node)]
        : call \in { PsubroutineCall(PfeedToken(p, TokenKeyword, "do").p) } })

\* ParseTree.returnStatement
returnStatement(p) ==
    The({ The({
        [p |-> PfeedToken(expr.p, TokenSymbol, ";").p, node |-> NewReturnNode(expr.node)]
      : expr \in { IF ~isTokenOne(k.tok, TokenSymbol, ";") THEN Pexpression(k.p)
                   ELSE [p |-> k.p, node |-> NilNode] } })
      : k \in { Ppeek(PfeedToken(p, TokenKeyword, "return").p, 0) } })

\* the switch of ParseTree.statements on p.GetValue(); p is nil at the end
\* of the input, and the call on it is a runtime error
statementOf(p, tok) ==
    IF tok = NilToken THEN [p |-> Pcrash(p), node |-> NilNode]
    ELSE IF GetValue(tok) = "let" THEN letStatement(p)
    ELSE IF GetValue(tok) = "if" THEN PifStatement(p)
    ELSE IF GetValue(tok) = "while" THEN PwhileStatement(p)
    ELSE IF GetValue(tok) = "do" THEN doStatement(p)
    ELSE IF GetValue(tok) = "return" THEN returnStatement(p)
    ELSE [p |-> Perror(p), node |-> NilNode]

RECURSIVE statementsMore(_, _)
\* the loop of ParseTree.statements: statements appended to stList up to '}'
statementsMore(t, stList0) ==
    The({ IF k.p.err # "" THEN [p |-> k.p, node |-> NilNode]
          ELSE IF isTokenOne(k.tok, TokenSymbol, "}")
          THEN [p |-> k.p, node |-> NewStatementsNode(stList)]
          ELSE The({ statementsMore(newSt.p, Append(stList, newSt.node))
                   : newSt \in { statementOf(k.p, k.tok) } })
        : k \in { Ppeek(t, 0) }, stList \in { stList0 } })

\* ParseTree.statements
statements(p) == statementsMore(p, << >>)

\* the method called runs unless a panic is under way
Pcall(method, t) ==
    The({ IF p.err # "" THEN [p |-> p, node |-> NilNode]
          ELSE CASE method = "term" -> term(p)
                 [] method = "expression" -> expression(p)
                 [] method = "expressionList" -> expressionList(p)
                 [] method = "subroutineCall" -> subroutineCall(p)
                 [] method = "statements" -> statements(p)
                 [] method = "ifStatement" -> ifStatement(p)
                 [] method = "whileStatement" -> whileStatement(p)
        : p \in {t} })

\* ParseTree.varType: [p, tok]
varType(p) ==
    The({ IF tk.p.err # "" THEN tk
          ELSE IF tk.tok = NilToken THEN [p |-> Pcrash(tk.p), tok |-> NilToken]
          ELSE IF tk.tok.type = TokenKeyword
          THEN IF GetValue(tk.tok) \notin {"int", "char", "boolean"}
               THEN [p |-> Perror(tk.p), tok |-> tk.tok]
               ELSE tk
          ELSE IF tk.tok.type = TokenIdentifier THEN tk
          ELSE [p |-> Perror(tk.p), tok |-> tk.tok]
        : tk \in { Pnext(p) } })

RECURSIVE moreNames(_, _)
\* the loop of classVarDec and of varDec: (',' varName)* up to ';',
\* [p, names]
moreNames(t, names0) ==
    The({ IF k.p.err # "" \/ isTokenOne(k.tok, TokenSymbol, ";")
          THEN [p |-> k.p, names |-> names]
          ELSE The({ moreNames(id.p, Append(names, id.tok))
                   : id \in { PfeedToken(PfeedToken(k.p, TokenSymbol, ",").p,
                                         TokenIdentifier, "") } })
        : k \in { Ppeek(t, 0) }, names \in { names0 } })

\* ParseTree.classVarDec
classVarDec(p) ==
    The({ The({ The({ The({ The({
        [p |-> PfeedToken(more.p, TokenSymbol, ";").p,
         node |-> NewClassVarDecNode(varClass.tok, vt.tok, more.names)]
      : more \in { moreNames(varName.p, <<varName.tok>>) } })
      : varName \in { PfeedToken(vt.p, TokenIdentifier, "") } })
      : vt \in { varType(varClass.p) } })
      : varClass \in { IF isTokenAny(k.tok, TokenKeyword, {"static", "field"})
                       THEN Pfeed(k.p) ELSE [p |-> k.p, tok |-> NilToken] } })
      : k \in { Ppeek(p, 0) } })

\* ParseTree.varDec
varDec(p) ==
    The({ The({ The({
        [p |-> PfeedToken(more.p, TokenSymbol, ";").p,
         node |-> NewVarDecNode(vt.tok, more.names)]
      : more \in { moreNames(id.p, <<id.tok>>) } })
      : id \in { PfeedToken(vt.p, TokenIdentifier, "") } })
      : vt \in { varType(PfeedToken(p, TokenKeyword, "var").p) } })

RECURSIVE moreParameters(_, _, _)
\* the loop of parameterList: (',' type varName)*
moreParameters(t, varTypes0, varNames0) ==
    The({ IF k.p.err # "" THEN [p |-> k.p, node |-> NilNode]
          ELSE IF ~isTokenOne(k.tok, TokenSymbol, ",")
          THEN [p |-> k.p, node |-> NewParameterListNode(varTypes, varNames)]
          ELSE The({ The({
                   moreParameters(nextVarName.p, Append(varTypes, nextType.tok),
                                  Append(varNames, nextVarName.tok))
                 : nextVarName \in { PfeedToken(nextType.p, TokenIdentifier, "") } })
                 : nextType \in { varType(Pfeed(k.p).p) } })
        : k \in { Ppeek(t, 0) }, varTypes \in { varTypes0 }, varNames \in { varNames0 } })

\* ParseTree.parameterList
parameterList(p) ==
    The({ IF isTokenOne(k.tok, TokenSymbol, ")")
          THEN [p |-> k.p, node |-> NewParameterListNode(<< >>, << >>)]
          ELSE The({ The({
                   moreParameters(firstVarName.p, <<firstType.tok>>, <<firstVarName.tok>>)
                 : firstVarName \in { PfeedToken(firstType.p, TokenIdentifier, "") } })
                 : firstType \in { varType(k.p) } })
        : k \in { Ppeek(p, 0) } })

RECURSIVE varDecsFrom(_, _)
\* the loop of subroutineBody: varDec*, [p, varDecs]
varDecsFrom(t, varDecs0) ==
    The({ IF k.p.err # "" \/ ~isTokenOne(k.tok, TokenKeyword, "var")
          THEN [p |-> k.p, varDecs |-> varDecs]
          ELSE The({ varDecsFrom(vd.p, Append(varDecs, vd.node))
                   : vd \in { varDec(k.p) } })
        : k \in { Ppeek(t, 0) }, varDecs \in { varDecs0 } })

\* ParseTree.subroutineBody
subroutineBody(p) ==
    The({ The({
        [p |-> PfeedToken(st.p, TokenSymbol, "}").p,
         node |-> NewSubroutineBodyNode(st.node, vds.varDecs)]
      : st \in { Pstatements(vds.p) } })
      : vds \in { varDecsFrom(PfeedToken(p, TokenSymbol, "{").p, << >>) } })

SubroutineKinds == {"constructor", "function", "method"}

\* ParseTree.subroutineDec
subroutineDec(p) ==
    The({ The({ The({ The({ The({ The({ The({
        [p |-> sbrBody.p,
         node |-> NewSubroutineDecNode(sbrClass.tok, returnType.tok, sbrName.tok,
                                       paramList.node, sbrBody.node)]
      : sbrBody \in { subroutineBody(PfeedToken(paramList.p, TokenSymbol, ")").p) } })
      : paramList \in { parameterList(PfeedToken(sbrName.p, TokenSymbol, "(").p) } })
      : sbrName \in { PfeedToken(returnType.p, TokenIdentifier, "") } })
      : returnType \in { IF isTokenOne(k2.tok, TokenKeyword, "void") THEN Pfeed(k2.p)
                         ELSE varType(k2.p) } })
      : k2 \in { Ppeek(sbrClass.p, 0) } })
      : sbrClass \in { IF ~isTokenAny(k.tok, TokenKeyword, SubroutineKinds)
                       THEN [p |-> Perror(k.p), tok |-> NilToken] ELSE Pfeed(k.p) } })
      : k \in { Ppeek(p, 0) } })

RECURSIVE classVarDecsFrom(_, _)
\* the first loop of ParseTree.class: classVarDec*, [p, nodes]
classVarDecsFrom(t, nodes0) ==
    The({ IF k.p.err # "" \/ ~isTokenAny(k.tok, TokenKeyword, {"static", "field"})
          THEN [p |-> k.p, nodes |-> nodes]
          ELSE The({ classVarDecsFrom(clv.p, Append(nodes, clv.node))
                   : clv \in { classVarDec(k.p) } })
        : k \in { Ppeek(t, 0) }, nodes \in { nodes0 } })

RECURSIVE subroutineDecsFrom(_, _)
\* the second loop of ParseTree.class: subroutineDec*, [p, nodes]
subroutineDecsFrom(t, nodes0) ==
    The({ IF k.p.err # "" \/ ~isTokenAny(k.tok, TokenKeyword, SubroutineKinds)
          THEN [p |-> k.p, nodes |-> nodes]
          ELSE The({ subroutineDecsFrom(sbr.p, Append(nodes, sbr.node))
                   : sbr \in { subroutineDec(k.p) } })
        : k \in { Ppeek(t, 0) }, nodes \in { nodes0 } })

\* ParseTree.class
class(p) ==
    The({ The({ The({
        [p |-> PfeedToken(sds.p, TokenSymbol, "}").p,
         node |-> NewClassNode(clName.tok, vds.nodes, sds.nodes)]
      : sds \in { subroutineDecsFrom(vds.p, << >>) } })
      : vds \in { classVarDecsFrom(PfeedToken(clName.p, TokenSymbol, "{").p, << >>) } })
      : clName \in { PfeedToken(PfeedToken(p, TokenKeyword, "class").p,
                                TokenIdentifier, "") } })

\* ParseTree.Parse with rootNodeParser as the root: [p, node]; the tree is
\* returned only when no panic ended the parse
Parse(p, rootNodeParser) ==
    The({ [p |-> r.p, node |-> IF r.p.err = "" THEN r.node ELSE NilNode]
        : r \in { IF rootNodeParser = "class" THEN class(p)
                  ELSE IF rootNodeParser = "varDec" THEN varDec(p)
                  ELSE Pcall(rootNodeParser, p) } })

(***************************************************************************)
(* token.go: the Tokenizer.  A byte is a string of one character, the      *)
(* reader the sequence of the bytes not read yet.                          *)
(***************************************************************************)
symbols ==
    {"(", ")", "[", "]", "{", "}", ",", ";", "=", ".", "+", "-", "*", "/", "&", "|",
     "~", "<", ">"}

keywords ==
    {"class", "constructor", "method", "function", "int", "boolean", "char", "void",
     "var", "static", "field", "let", "do", "if", "else", "while", "return", "true",
     "false", "null", "this"}

\* the byte 0, which ReadByte returns with an error
NUL == ""

\* unicode.IsLetter and unicode.IsNumber on the ASCII bytes
IsLetter(ch) ==
    ch \in {"a", "b", "c", "d", "e", "f", "g", "h", "i", "j", "k", "l", "m", "n", "o",
            "p", "q", "r", "s", "t", "u", "v", "w", "x", "y", "z", "A", "B", "C", "D",
            "E", "F", "G", "H", "I", "J", "K", "L", "M", "N", "O", "P", "Q", "R", "S",
            "T", "U", "V", "W", "X", "Y", "Z"}

IsNumber(ch) == ch \in {"0", "1", "2", "3", "4", "5", "6", "7", "8", "9"}

NewKeywordToken(value, line, pos) ==
    [type |-> TokenKeyword, val |-> value, line |-> line, pos |-> pos]

NewIdentifierToken(value, line, pos) ==
    [type |-> TokenIdentifier, val |-> value, line |-> line, pos |-> pos]

NewSymbolToken(value, line, pos) ==
    [type |-> TokenSymbol, val |-> value, line |-> line, pos |-> pos]

NewStringConstantToken(value, line, pos) ==
    [type |-> TokenStringConst, val |-> value, line |-> line, pos |-> pos]

NewIntegerConstantToken(value, line, pos) ==
    [type |-> TokenIntegerConst, val |-> value, line |-> line, pos |-> pos]

isSpace(ch) == ch \in {" ", "\t", "\r"}

isEOL(ch) == ch = "\n"

\* a Tokenizer that counts no lines, for comparison
NewTokenizer_LineZero(bytes) == [rd |-> bytes, line |-> 0, pos |-> 0]

NewTokenizer(bytes) == [rd |-> bytes, line |-> 1, pos |-> 0]

\* Tokenizer.nextByte: [z, b, err]
nextByte(z) ==
    IF z.rd = << >> THEN [z |-> z, b |-> NUL, err |-> "EOF"]
    ELSE [z |-> [z EXCEPT !.rd = Tail(z.rd), !.pos = z.pos + 1],
          b |-> Head(z.rd), err |-> ""]

\* a next line that keeps the column, for comparison
nextLine_KeepsPos(z) == [z EXCEPT !.line = z.line + 1]

\* Tokenizer.nextLine
nextLine(z) == [z EXCEPT !.line = z.line + 1, !.pos = 0]

RECURSIVE skipSpaces(_)
\* Tokenizer.skipSpaces: [z, ch, err]
skipSpaces(t) ==
    The({ IF isEOL(r.b) THEN skipSpaces(nextLine(r.z))
          ELSE IF ~isSpace(r.b) THEN [z |-> r.z, ch |-> r.b, err |-> r.err]
          ELSE skipSpaces(r.z)
        : r \in { nextByte(t) } })

\* reader.Peek(1) gives the byte c
PeekIs(z, c) == z.rd # << >> /\ Head(z.rd) = c

\* Tokenizer.isInlineComment
isInlineComment(z, first) == first = "/" /\ PeekIs(z, "/")

\* Tokenizer.isMultiLineComment
isMultiLineComment(z, first) == first = "/" /\ PeekIs(z, "*")

RECURSIVE ReadBytes(_, _)
\* reader.ReadBytes(delim): the reader after the bytes up to the first
\* delim, and the io.EOF of a reader without one: [rd, err]
ReadBytes(rd, delim) ==
    IF rd = << >> THEN [rd |-> rd, err |-> "EOF"]
    ELSE IF Head(rd) = delim THEN [rd |-> Tail(rd), err |-> ""]
    ELSE ReadBytes(Tail(rd), delim)

\* Tokenizer.skipInlineComment
skipInlineComment(z) ==
    The({ IF r.err # "" THEN [z |-> [z EXCEPT !.rd = r.rd], ch |-> NUL, err |-> r.err]
          ELSE skipSpaces(nextLine([z EXCEPT !.rd = r.rd]))
        : r \in { ReadBytes(z.rd, "\n") } })

RECURSIVE skipMultilineComment(_)
\* Tokenizer.skipMultilineComment; it is entered with the '*' of the opening
\* not read yet, and the byte read after a '*' is looked at only for '/'
skipMultilineComment(t) ==
    The({ IF first.err # "" THEN [z |-> first.z, ch |-> NUL, err |-> first.err]
          ELSE IF first.b = "*"
          THEN The({ IF next.err # "" THEN [z |-> next.z, ch |-> NUL, err |-> next.err]
                     ELSE IF next.b = "/" THEN skipSpaces(next.z)
                     ELSE skipMultilineComment(next.z)
                   : next \in { nextByte(first.z) } })
          ELSE IF first.b = "\n" THEN skipMultilineComment(nextLine(first.z))
          ELSE skipMultilineComment(first.z)
        : first \in { nextByte(t) } })

RECURSIVE skipComment(_, _)
\* Tokenizer.skipComment: [z, ch, err]
skipComment(t, first0) ==
    The({ IF ~isInlineComment(z, first) /\ ~isMultiLineComment(z, first)
          THEN [z |-> z, ch |-> first, err |-> ""]
          ELSE The({ IF a.err # "" THEN a
                     ELSE The({ IF b.err # "" THEN b ELSE skipComment(b.z, b.ch)
                              : b \in { IF isMultiLineComment(a.z, a.ch)
                                        THEN skipMultilineComment(a.z) ELSE a } })
                   : a \in { IF isInlineComment(z, first) THEN skipInlineComment(z)
                             ELSE [z |-> z, ch |-> first, err |-> ""] } })
        : z \in { t }, first \in { first0 } })

RECURSIVE readWordFrom(_, _)
\* the loop of Tokenizer.readWord: [z, word]; the bytes 0 are left out
readWordFrom(t, buf0) ==
    The({ IF z.rd = << >> THEN [z |-> z, word |-> buf]
          ELSE IF isSpace(Head(z.rd)) \/ Head(z.rd) \in symbols \/ isEOL(Head(z.rd))
          THEN [z |-> z, word |-> buf]
          ELSE The({ readWordFrom(r.z, IF r.b # NUL THEN buf \o r.b ELSE buf)
                   : r \in { nextByte(z) } })
        : z \in { t }, buf \in { buf0 } })

\* Tokenizer.readWord
readWord(z, fb) == readWordFrom(z, fb)

RECURSIVE readStringFrom(_, _)
\* the loop of Tokenizer.readStringToken: [z, word], the word as the
\* sequence of its bytes
readStringFrom(t, buf0) ==
    The({ IF r.err # "" \/ r.b = "\"" THEN [z |-> r.z, word |-> buf]
          ELSE IF r.b = "\n" THEN readStringFrom(nextLine(r.z), Append(buf, r.b))
          ELSE readStringFrom(r.z, Append(buf, r.b))
        : r \in { nextByte(t) }, buf \in { buf0 } })

\* Tokenizer.readStringToken
readStringToken(z) == readStringFrom(z, << >>)

\* the switch of Tokenizer.ReadToken on the first byte, read at startPos
tokenOf(z, first, startPos) ==
    IF first \in symbols
    THEN [z |-> z, tok |-> NewSymbolToken(first, z.line, startPos), err |-> ""]
    ELSE IF first = "\""
    THEN The({ [z |-> w.z, tok |-> NewStringConstantToken(w.word, w.z.line, startPos),
                err |-> ""]
             : w \in { readStringToken(z) } })
    ELSE IF IsLetter(first)
    THEN The({ [z |-> w.z,
                tok |-> IF w.word \in keywords
                        THEN NewKeywordToken(w.word, w.z.line, startPos)
                        ELSE NewIdentifierToken(w.word, w.z.line, startPos),
                err |-> ""]
             : w \in { readWord(z, first) } })
    ELSE IF IsNumber(first)
    THEN The({ [z |-> w.z, tok |-> NewIntegerConstantToken(w.word, w.z.line, startPos),
                err |-> ""]
             : w \in { readWord(z, first) } })
    ELSE [z |-> z, tok |-> NilToken, err |-> "undefined token type"]

\* Tokenizer.ReadToken: [z, tok, err]
ReadToken(t) ==
    The({ IF sp.err # "" THEN [z |-> sp.z, tok |-> NilToken, err |-> sp.err]
          ELSE The({ IF first.err # ""
                     THEN [z |-> first.z, tok |-> NilToken, err |-> first.err]
                     ELSE tokenOf(first.z, first.ch, first.z.pos)
                   : first \in { skipComment(sp.z, sp.ch) } })
        : sp \in { skipSpaces(t) } })

\* no file
NoFiles == [n \in {} |-> ""]

\* main of jack.go on the files 1..n, kinds[w] telling what fails for the
\* file w; no goroutine is started yet
NewJack(kinds) ==
    [kind |-> kinds,
     spawned |-> 0,
     wpc |-> [w \in DOMAIN kinds |-> "idle"],
     wg |-> 0,
     errs |-> << >>,
     vm |-> {},
     waiter |-> "idle",
     main |-> "spawn",
     exit |-> 0]

\* no dispatcher at work
JackIdle == jack = NewJack(NoFiles)

(***************************************************************************)
(* xmlbuilder.go.  A line is the number of spaces it starts with and the   *)
(* strings written after them.                                             *)
(***************************************************************************)
defaultIndent == 2

newStack == << >>

stackPush(st, name) == <<name>> \o st

NewXmlBuilder == [sb |-> << >>, st |-> newStack, panic |-> FALSE]

\* the three WriteString calls of a line
XbWriteLine(x, spaces, text) ==
    [x EXCEPT !.sb = Append(@, [spaces |-> spaces, text |-> text])]

\* XmlBuilder.Open
XbOpen(x, name) ==
    IF x.panic THEN x
    ELSE [XbWriteLine(x, Len(x.st) * defaultIndent, <<"<", name, ">">>)
             EXCEPT !.st = stackPush(x.st, name)]

\* a Close that computes the spaces before it pops, for comparison
XbClose_SpacesBeforePop(x) ==
    IF x.panic THEN x
    ELSE IF Len(x.st) = 0 THEN [x EXCEPT !.panic = TRUE]
    ELSE [XbWriteLine(x, Len(x.st) * defaultIndent, <<"</", Head(x.st), ">">>)
             EXCEPT !.st = Tail(x.st)]

\* XmlBuilder.Close; stack.Pop panics on the empty stack
XbClose(x) ==
    IF x.panic THEN x
    ELSE IF Len(x.st) = 0 THEN [x EXCEPT !.panic = TRUE]
    ELSE [XbWriteLine(x, Len(Tail(x.st)) * defaultIndent, <<"</", Head(x.st), ">">>)
             EXCEPT !.st = Tail(x.st)]

\* xmlReplacer.Replace on a value that is one symbol or a word
xmlReplace(value) ==
    CASE value = "<" -> "&lt;"
      [] value = ">" -> "&gt;"
      [] value = "\"" -> "&quot;"
      [] value = "&" -> "&amp;"
      [] OTHER -> value

\* defaultToken.GetXml; the xmlNode of a token is the name of its type
GetXml(tk) == <<"<", tk.type, "> ", xmlReplace(tk.val), " </", tk.type, ">">>

\* XmlBuilder.WriteToken
XbWriteToken(x, tk) ==
    IF x.panic THEN x
    ELSE XbWriteLine(x, Len(x.st) * defaultIndent, GetXml(tk))

\* XmlBuilder.WriteKeyword
XbWriteKeyword(x, v) == XbWriteToken(x, Tok(TokenKeyword, v))

\* XmlBuilder.WriteSymbol
XbWriteSymbol(x, v) == XbWriteToken(x, Tok(TokenSymbol, v))

(***************************************************************************)
(* nodes.go: Xml of each node.  The walk is threaded as a record [xb, err]:*)
(* xb is the XmlBuilder, err is "" while the walk runs and "panic" once a  *)
(* panic unwinds it.  After a panic nothing runs but the deferred Close of *)
(* every Xml method that is on the call stack.                             *)
(***************************************************************************)
NewXmlWalk == [xb |-> NewXmlBuilder, err |-> ""]

XOpen(w, name) == IF w.err # "" THEN w ELSE [w EXCEPT !.xb = XbOpen(@, name)]

XToken(w, tk) == IF w.err # "" THEN w ELSE [w EXCEPT !.xb = XbWriteToken(@, tk)]

XKeyword(w, v) == IF w.err # "" THEN w ELSE [w EXCEPT !.xb = XbWriteKeyword(@, v)]

XSymbol(w, v) == IF w.err # "" THEN w ELSE [w EXCEPT !.xb = XbWriteSymbol(@, v)]

\* panic(...) inside an Xml method
XPanic(w) == IF w.err # "" THEN w ELSE [w EXCEPT !.err = "panic"]

\* the deferred xb.Close() of an Xml method: it runs on return and while a
\* panic unwinds
XDeferClose(w) == [w EXCEPT !.xb = XbClose(@)]

RECURSIVE XmlIdsFrom(_, _, _)
\* the loop "for i, n := range names" with a ',' before every name but the first
XmlIdsFrom(w, names, i) ==
    IF i > Len(names) THEN w
    ELSE XmlIdsFrom(XToken(IF i > 1 THEN XSymbol(w, ",") ELSE w, names[i]), names, i + 1)

RECURSIVE XmlParamsFrom(_, _, _)
\* the type and the name of every parameter of pln from index i
XmlParamsFrom(w, pln, i) ==
    IF i > Len(pln.varTypes) THEN w
    ELSE XmlParamsFrom(XToken(XToken(IF i > 1 THEN XSymbol(w, ",") ELSE w,
                                     pln.varTypes[i]), pln.varNames[i]), pln, i + 1)

RECURSIVE NodeXml(_, _)
RECURSIVE XmlEachFrom(_, _, _)
\* the loop "for each node: node.Xml(xb)" from index i
XmlEachFrom(w, nodes, i) ==
    IF i > Len(nodes) THEN w
    ELSE XmlEachFrom(NodeXml(w, nodes[i]), nodes, i + 1)

RECURSIVE XmlExprsFrom(_, _, _)
\* the loop of ExpressionListNode.Xml from index i
XmlExprsFrom(w, exprs, i) ==
    IF i > Len(exprs) THEN w
    ELSE XmlExprsFrom(NodeXml(IF i > 1 THEN XSymbol(w, ",") ELSE w, exprs[i]),
                      exprs, i + 1)

RECURSIVE XmlOpsFrom(_, _, _)
\* the loop of ExpressionNode.Xml over (op term) from index i
XmlOpsFrom(w, en, i) ==
    IF i > Len(en.ops) THEN w
    ELSE XmlOpsFrom(NodeXml(XToken(w, en.ops[i]), en.opTerms[i]), en, i + 1)

\* the switch of TermNode.Xml: it has no case for termNodeVar
TermNodeCases(w, tn) ==
    IF tn.termType \in {"termNodeIntConst", "termNodeKeyWordConst", "termNodeThis",
                        "termNodeStrConst"}
    THEN XToken(w, tn.val)
    ELSE IF tn.termType = "termNodeArray"
    THEN XSymbol(NodeXml(XSymbol(XToken(w, tn.val), "["), tn.arrayIdx), "]")
    ELSE IF tn.termType = "termNodeExpr"
    THEN XSymbol(NodeXml(XSymbol(w, "("), tn.exp), ")")
    ELSE IF tn.termType = "termNodeUnary"
    THEN NodeXml(XToken(w, tn.unaryOp), tn.unaryTerm)
    ELSE IF tn.termType = "termNodeCall"
    THEN NodeXml(w, tn.call)
    ELSE XPanic(w)

\* TermNode.Xml
TermNodeXml(w, tn) == XDeferClose(TermNodeCases(XOpen(w, "term"), tn))

\* SubroutineCallNode.Xml: no element of its own
SubroutineCallNodeXml(w, scn) ==
    XSymbol(NodeXml(XSymbol(XToken(IF scn.Prefix # NilToken
                                   THEN XSymbol(XToken(w, scn.Prefix), ".")
                                   ELSE w,
                                   scn.SubroutineName), "("),
                    scn.Params), ")")

\* IfStatementNode.Xml after the opening tag
IfStatementNodeBody(w, ifn) ==
    The({ IF IsNil(ifn.ElseStat) THEN w1
          ELSE XSymbol(NodeXml(XSymbol(XKeyword(w1, "else"), "{"), ifn.ElseStat), "}")
        : w1 \in { XSymbol(NodeXml(XSymbol(XSymbol(NodeXml(XSymbol(XKeyword(w, "if"),
                       "("), ifn.IfExpr), ")"), "{"), ifn.IfStat), "}") } })

\* LetStatementNode.Xml after the opening tag
LetStatementNodeBody(w, lsn) ==
    XSymbol(NodeXml(XSymbol(
        IF ~IsNil(lsn.ArrayExp)
        THEN XSymbol(NodeXml(XSymbol(XToken(XKeyword(w, "let"), lsn.VarName), "["),
                             lsn.ArrayExp), "]")
        ELSE XToken(XKeyword(w, "let"), lsn.VarName),
        "="), lsn.ValueExp), ";")

\* node.Xml(xb) for the node types of nodes.go; nothing is called once a
\* panic unwinds the walk
NodeXml(w, n) ==
    IF w.err # "" THEN w
    ELSE IF n.NodeType = "Class"
    THEN XDeferClose(XSymbol(XmlEachFrom(XmlEachFrom(
             XSymbol(XToken(XKeyword(XOpen(w, "class"), "class"), n.Name), "{"),
             n.VarDec, 1), n.SbrDec, 1), "}"))
    ELSE IF n.NodeType = "ClassVarDec"
    THEN XDeferClose(XSymbol(XmlIdsFrom(
             XToken(XToken(XOpen(w, "classVarDec"), n.Kind), n.VarType),
             n.Names, 1), ";"))
    ELSE IF n.NodeType = "SubroutineDec"
    THEN XDeferClose(NodeXml(XSymbol(NodeXml(XSymbol(
             XToken(XToken(XToken(XOpen(w, "subroutineDec"), n.SbrKind),
                           n.ReturnType), n.Name),
             "("), n.ParamList), ")"), n.Body))
    ELSE IF n.NodeType = "ParameterList"
    THEN IF Len(n.varTypes) # Len(n.varNames) THEN XPanic(w)
         ELSE XDeferClose(XmlParamsFrom(XOpen(w, "parameterList"), n, 1))
    ELSE IF n.NodeType = "SubroutineBody"
    THEN XDeferClose(XSymbol(NodeXml(XmlEachFrom(
             XSymbol(XOpen(w, "subroutineBody"), "{"), n.VarDec, 1), n.Statm), "}"))
    ELSE IF n.NodeType = "VarDec"
    THEN XDeferClose(XSymbol(XmlIdsFrom(
             XToken(XKeyword(XOpen(w, "varDec"), "var"), n.VarType), n.Ids, 1), ";"))
    ELSE IF n.NodeType = "LetStatement"
    THEN XDeferClose(LetStatementNodeBody(XOpen(w, "letStatement"), n))
    ELSE IF n.NodeType = "Statements"
    THEN XDeferClose(XmlEachFrom(XOpen(w, "statements"), n.StList, 1))
    ELSE IF n.NodeType = "IfStatement"
    THEN XDeferClose(IfStatementNodeBody(XOpen(w, "ifStatement"), n))
    ELSE IF n.NodeType = "WhileStatement"
    THEN XDeferClose(XSymbol(NodeXml(XSymbol(XSymbol(NodeXml(XSymbol(
             XKeyword(XOpen(w, "whileStatement"), "while"), "("), n.Expr), ")"),
             "{"), n.Stat), "}"))
    ELSE IF n.NodeType = "DoStatement"
    THEN XDeferClose(XSymbol(NodeXml(XKeyword(XOpen(w, "doStatement"), "do"),
                                     n.Call), ";"))
    ELSE IF n.NodeType = "ReturnStatement"
    THEN XDeferClose(XSymbol(
             IF ~IsNil(n.Expr)
             THEN NodeXml(XKeyword(XOpen(w, "returnStatement"), "return"), n.Expr)
             ELSE XKeyword(XOpen(w, "returnStatement"), "return"), ";"))
    ELSE IF n.NodeType = "Expression"
    THEN XDeferClose(
             IF Len(n.ops) > 0 /\ Len(n.ops) # Len(n.opTerms)
             THEN XPanic(NodeXml(XOpen(w, "expression"), n.term))
             ELSE XmlOpsFrom(NodeXml(XOpen(w, "expression"), n.term), n, 1))
    ELSE IF n.NodeType = "ExpressionList"
    THEN XDeferClose(XmlExprsFrom(XOpen(w, "expressionList"), n.Exprs, 1))
    ELSE IF n.NodeType = "SubroutineCall"
    THEN SubroutineCallNodeXml(w, n)
    ELSE IF n.NodeType = "Term"
    THEN TermNodeXml(w, n)
    ELSE XPanic(w)

\* no call of next or peek made
NoCalls == [tokens |-> << >>, call |-> "", tok |-> NilToken]

\* no XmlBuilder in use, no token taken from a ParseTree
AuxIdle ==
    /\ JackIdle
    /\ xb = NewXmlBuilder
    /\ got = NoCalls

\* a Tokenizer that has read nothing
LexIdle ==
    /\ lexer = NewTokenizer(<< >>)
    /\ lexed = << >>
    /\ lerr = ""

\* no parser at work
ParseIdle ==
    /\ LexIdle
    /\ input = << >>
    /\ tz = << >>
    /\ peeked = NewParseTree(<< >>).peeked
    /\ current = NilToken
    /\ perr = ""
    /\ root = NilNode

(***************************************************************************)
(* The symbol environment driven by arbitrary calls                        *)
(***************************************************************************)
TblNames == {"x", "y"}
TblTypes == {"int", "C"}
TblTableNames == {"T"}

NoRet == [op |-> "none", name |-> "", err |-> ""]

NoClass == [name |-> NilToken, varDecs |-> << >>]

NoLast == [op |-> "none", node |-> NilNode, from |-> 0]

\* the Compiler and the walk before Run
GenIdle ==
    /\ sb = NewCompiler.sb
    /\ whileCount = NewCompiler.whileCount
    /\ ifCount = NewCompiler.ifCount
    /\ cerr = ""
    /\ pc = "start"
    /\ cls = NoClass
    /\ last = NoLast
    /\ nSubs = 0
    /\ nStmts = 0

ZeroAdds == [k \in VarKind |-> 0]

\* the number of variables held by the open tables altogether
VarTotal(list) == Cardinality({<<i, n>> \in (1..Len(list)) \X TblNames :
                                  n \in DOMAIN list[i].table})

TblInit ==
    /\ Tbl = NewSymbolTableList
    /\ ret = NoRet
    /\ adds = << >>
    /\ opened = 0
    /\ GenIdle
    /\ ParseIdle
    /\ AuxIdle

DoCreateTable(name) ==
    /\ Len(Tbl) < MaxTables
    /\ Tbl' = CreateTable(Tbl, name)
    /\ adds' = Append(adds, ZeroAdds)
    /\ opened' = opened + 1
    /\ ret' = [op |-> "CreateTable", name |-> name, err |-> ""]
    /\ UNCHANGED genVars
    /\ UNCHANGED parseVars

DoCloseTable ==
    /\ Tbl' = CloseTable(Tbl)
    /\ adds' = IF Len(adds) > 0 THEN SubSeq(adds, 1, Len(adds) - 1) ELSE adds
    /\ opened' = IF opened > 0 THEN opened - 1 ELSE opened
    /\ ret' = [op |-> "CloseTable", name |-> "", err |-> ""]
    /\ UNCHANGED genVars
    /\ UNCHANGED parseVars

DoAddVar(kind, vType, name) ==
    LET r == ListAddVar(Tbl, kind, vType, name)
    IN /\ VarTotal(Tbl) < MaxVars
       /\ Tbl' = r.list
       /\ adds' = IF r.err = ""
                  THEN [adds EXCEPT ![Len(adds)][kind] = @ + 1]
                  ELSE adds
       /\ ret' = [op |-> "AddVar", name |-> name, err |-> r.err]
       /\ UNCHANGED opened
       /\ UNCHANGED genVars
       /\ UNCHANGED parseVars
    /\ UNCHANGED parseVars

TblNext ==
    \/ \E name \in TblTableNames : DoCreateTable(name)
    \/ DoCloseTable
    \/ \E kind \in VarKind, vType \in TblTypes, name \in TblNames :
          DoAddVar(kind, vType, name)

SpecTbl == TblInit /\ [][TblNext]_vars

(***************************************************************************)
(* Compiler.Run walking a class: ClassNode.Compile enters the class, then  *)
(* each SubroutineDecNode.Compile enters a subroutine, compiles the        *)
(* statements of its body one by one and leaves it.  The nodes are drawn   *)
(* as the walk reaches them.                                               *)
(***************************************************************************)
Comp == [sb |-> sb, whileCount |-> whileCount, ifCount |-> ifCount, Tbl |-> Tbl,
         err |-> ""]

RECURSIVE RunDeferred(_)
\* a panic unwinding the walk: the deferred CloseTable of every frame that
\* opened a table
\* an unwinding that runs the deferred CloseTable of the innermost frame only
RunDeferred_ClosesOne(c) == IF Len(c.Tbl) = 0 THEN c ELSE CCloseTable(c)

RunDeferred(c) == IF Len(c.Tbl) = 0 THEN c ELSE RunDeferred(CCloseTable(c))

\* the state after a step that left the Compiler as c: the walk goes on at
\* nextPc, or the panic unwinds and Run ends
Settle(c, nextPc) ==
    LET d == IF Running(c) THEN c ELSE RunDeferred(c)
    IN /\ sb' = d.sb
       /\ whileCount' = d.whileCount
       /\ ifCount' = d.ifCount
       /\ Tbl' = d.Tbl
       /\ cerr' = d.err
       /\ pc' = IF Running(c) THEN nextPc ELSE "done"

GenInit ==
    /\ Tbl = NewCompiler.Tbl
    /\ ret = NoRet
    /\ adds = << >>
    /\ opened = 0
    /\ GenIdle
    /\ ParseIdle
    /\ AuxIdle

GenClassEnter(name, varDecs) ==
    /\ pc = "start"
    /\ Settle(ClassEnter(Comp, name, varDecs), "class")
    /\ cls' = [name |-> name, varDecs |-> varDecs]
    /\ last' = [op |-> "ClassEnter", node |-> NilNode, from |-> Len(sb)]
    /\ UNCHANGED <<nSubs, nStmts>>
    /\ UNCHANGED tblVars
    /\ UNCHANGED parseVars

GenSubroutineEnter(sdn, maxSubs) ==
    /\ pc = "class"
    /\ nSubs < maxSubs
    /\ Settle(SubroutineDecEnter(Comp, sdn), "body")
    /\ last' = [op |-> "SubroutineEnter", node |-> sdn, from |-> Len(sb)]
    /\ nSubs' = nSubs + 1
    /\ UNCHANGED <<cls, nStmts>>
    /\ UNCHANGED tblVars
    /\ UNCHANGED parseVars

GenStatement(st, maxStmts) ==
    /\ pc = "body"
    /\ nStmts < maxStmts
    /\ Settle(StatementCompile(Comp, st), "body")
    /\ last' = [op |-> "Statement", node |-> st, from |-> Len(sb)]
    /\ nStmts' = nStmts + 1
    /\ UNCHANGED <<cls, nSubs>>
    /\ UNCHANGED tblVars
    /\ UNCHANGED parseVars

\* the deferred CloseTable of SubroutineDecNode.Compile on its return
GenSubroutineExit ==
    /\ pc = "body"
    /\ Settle(CCloseTable(Comp), "class")
    /\ last' = [op |-> "SubroutineExit", node |-> NilNode, from |-> Len(sb)]
    /\ UNCHANGED <<cls, nSubs, nStmts>>
    /\ UNCHANGED tblVars
    /\ UNCHANGED parseVars

\* the deferred CloseTable of ClassNode.Compile on its return; Run returns nil
GenClassExit ==
    /\ pc = "class"
    /\ Settle(CCloseTable(Comp), "done")
    /\ last' = [op |-> "ClassExit", node |-> NilNode, from |-> Len(sb)]
    /\ UNCHANGED <<cls, nSubs, nStmts>>
    /\ UNCHANGED tblVars
    /\ UNCHANGED parseVars

(***************************************************************************)
(* The nodes the walks are fed with, as the parser builds them             *)
(***************************************************************************)
Kw(v) == Tok(TokenKeyword, v)
Id(v) == Tok(TokenIdentifier, v)
Sym(v) == Tok(TokenSymbol, v)
IntTok(v) == Tok(TokenIntegerConst, v)

\* an expression of one term
E(t) == NewExpressionNode(t, << >>, << >>)

ClassName == Id("C")

E_1 == E(NewIntConstTermNode(IntTok("1")))
E_i == E(NewVarTermNode(Id("i")))
E_a1 == E(NewArrayTermNode(Id("a"), E_1))
E_qn == E(NewCallTermNode(
            NewClassSubroutineCallNode(Id("q"), Id("n"), NewExpressionListNode(<<E_1>>))))
E_sum == NewExpressionNode(NewVarTermNode(Id("i")), <<Sym("+")>>,
                           <<NewArrayTermNode(Id("q"), E_i)>>)

\* class C { field Array a; static P q; ... }, or no class variables
StmClassVarDecs ==
    { << >>,
      << NewClassVarDecNode(Kw("field"), Id("Array"), <<Id("a")>>),
         NewClassVarDecNode(Kw("static"), Id("P"), <<Id("q")>>) >> }

\* method void f(P p, int i) { var Array a; ... }
\* function void g() { ... }
\* constructor C new(int i) { var P p; ... }
StmSubs ==
    { NewSubroutineDecHead(Kw("method"), Kw("void"), Id("f"),
          NewParameterListNode(<<Id("P"), Kw("int")>>, <<Id("p"), Id("i")>>),
          <<NewVarDecNode(Id("Array"), <<Id("a")>>)>>),
      NewSubroutineDecHead(Kw("function"), Kw("void"), Id("g"),
          NewParameterListNode(<< >>, << >>), << >>),
      NewSubroutineDecHead(Kw("constructor"), Id("C"), Id("new"),
          NewParameterListNode(<<Kw("int")>>, <<Id("i")>>),
          <<NewVarDecNode(Id("P"), <<Id("p")>>)>>) }

StmArgLists == { << >>, <<E_1>>, <<E_a1>>, <<E_i, E_1>>, <<E_qn, E_1>> }

StmPrefixes == { NilToken, Id("p"), Id("q"), Id("P") }

\* subroutineCall as the parser builds it
CallNode(prefix, name, args) ==
    IF prefix # NilToken
    THEN NewClassSubroutineCallNode(prefix, name, NewExpressionListNode(args))
    ELSE NewSubroutineCallNode(name, NewExpressionListNode(args))

StmDoStatements ==
    { NewDoStatementNode(CallNode(prefix, Id("m"), args)) :
        prefix \in StmPrefixes, args \in StmArgLists }

StmLetStatements ==
    { NewLetStatementNode(Id("a"), idx, val) :
        idx \in {E_1, E_i}, val \in {E_1, E_a1, E_sum} }
    \cup { NewLetStatementNode(Id("i"), NilNode, val) : val \in {E_1, E_a1} }
    \cup { NewLetStatementNode(Id("u"), E_1, E_1) }

StmStatements == StmDoStatements \cup StmLetStatements

StmNext ==
    \/ \E varDecs \in StmClassVarDecs : GenClassEnter(ClassName, varDecs)
    \/ \E sdn \in StmSubs : GenSubroutineEnter(sdn, StmMaxSubs)
    \/ \E st \in StmStatements : GenStatement(st, StmMaxStmts)
    \/ GenSubroutineExit
    \/ GenClassExit

SpecStm == GenInit /\ [][StmNext]_vars

\* class C { field int x, y; ... }, class C { static P s; field int x, y; ... }
\* or no class variables
ClsClassVarDecs ==
    { << >>,
      << NewClassVarDecNode(Kw("field"), Kw("int"), <<Id("x"), Id("y")>>) >>,
      << NewClassVarDecNode(Kw("static"), Id("P"), <<Id("s")>>),
         NewClassVarDecNode(Kw("field"), Kw("int"), <<Id("x"), Id("y")>>) >> }

ClsSubKinds == { Kw("constructor"), Kw("function"), Kw("method") }

\* <kind> void k() { ... } and <kind> void k(P p, int i) { var int v, w; ... }
ClsSubs ==
    { NewSubroutineDecHead(kind, Kw("void"), Id("k"),
          NewParameterListNode(<< >>, << >>), << >>) : kind \in ClsSubKinds }
    \cup
    { NewSubroutineDecHead(kind, Kw("void"), Id("k"),
          NewParameterListNode(<<Id("P"), Kw("int")>>, <<Id("p"), Id("i")>>),
          <<NewVarDecNode(Kw("int"), <<Id("v"), Id("w")>>)>>) : kind \in ClsSubKinds }

\* return;  and  return x;
ClsStatements ==
    { NewReturnNode(NilNode), NewReturnNode(E(NewVarTermNode(Id("x")))) }

ClsNext ==
    \/ \E varDecs \in ClsClassVarDecs : GenClassEnter(ClassName, varDecs)
    \/ \E sdn \in ClsSubs : GenSubroutineEnter(sdn, ClsMaxSubs)
    \/ \E st \in ClsStatements : GenStatement(st, ClsMaxStmts)
    \/ GenSubroutineExit
    \/ GenClassExit

SpecCls == GenInit /\ [][ClsNext]_vars

(***************************************************************************)
(* Walks that end in each of the errors of the Compiler: a name declared   *)
(* twice, a variable that was not declared, an operator it does not know   *)
(***************************************************************************)
DepthMaxSubs == 2
DepthMaxStmts == 1

\* no class variables, field int x, y;  and  field int x, x;
DepthClassVarDecs ==
    { << >>,
      << NewClassVarDecNode(Kw("field"), Kw("int"), <<Id("x"), Id("y")>>) >>,
      << NewClassVarDecNode(Kw("field"), Kw("int"), <<Id("x"), Id("x")>>) >> }

\* method void f(P p, int i) { var int v; ... } , function void g() { ... }
\* and  function void h(int i, int i) { ... }
DepthSubs ==
    { NewSubroutineDecHead(Kw("method"), Kw("void"), Id("f"),
          NewParameterListNode(<<Id("P"), Kw("int")>>, <<Id("p"), Id("i")>>),
          <<NewVarDecNode(Kw("int"), <<Id("v")>>)>>),
      NewSubroutineDecHead(Kw("function"), Kw("void"), Id("g"),
          NewParameterListNode(<< >>, << >>), << >>),
      NewSubroutineDecHead(Kw("function"), Kw("void"), Id("h"),
          NewParameterListNode(<<Kw("int"), Kw("int")>>, <<Id("i"), Id("i")>>),
          << >>) }

\* an expression whose operator is a symbol BinaryOp has no entry for
E_unknownOp == NewExpressionNode(NewIntConstTermNode(IntTok("1")), <<Sym("~")>>,
                                 <<NewIntConstTermNode(IntTok("1"))>>)

\* return;  return x;  and  return 1 ~ 1;
DepthStatements ==
    { NewReturnNode(NilNode), NewReturnNode(E(NewVarTermNode(Id("x")))),
      NewReturnNode(E_unknownOp) }

DepthNext ==
    \/ \E varDecs \in DepthClassVarDecs : GenClassEnter(ClassName, varDecs)
    \/ \E sdn \in DepthSubs : GenSubroutineEnter(sdn, DepthMaxSubs)
    \/ \E st \in DepthStatements : GenStatement(st, DepthMaxStmts)
    \/ GenSubroutineExit
    \/ GenClassExit

SpecDepth == GenInit /\ [][DepthNext]_vars

(***************************************************************************)
(* Walks over subroutines whose bodies hold if and while statements        *)
(***************************************************************************)
E_true == E(NewKeyWordConstTermNode(Kw("true")))

NoStatements == NewStatementsNode(<< >>)

ReturnVoid == NewReturnNode(NilNode)

\* if (true) { } , if (true) { } else { } , while (true) { }
LblPlainStatements ==
    { NewIfStatementNode(E_true, NoStatements, NilNode),
      NewIfStatementNode(E_true, NoStatements, NoStatements),
      NewWhileStatementNode(E_true, NoStatements) }

\* if and while statements with another if or while, or a return, inside
LblNestedStatements ==
    { NewIfStatementNode(E_true, NewStatementsNode(<<inner>>), NilNode) :
        inner \in LblPlainStatements }
    \cup
    { NewWhileStatementNode(E_true, NewStatementsNode(<<inner>>)) :
        inner \in LblPlainStatements }
    \cup
    { NewIfStatementNode(E_true,
          NewStatementsNode(<<NewWhileStatementNode(E_true, NoStatements)>>),
          NewStatementsNode(<<NewIfStatementNode(E_true, NoStatements, NoStatements),
                              ReturnVoid>>)),
      NewIfStatementNode(E_i, NewStatementsNode(<<ReturnVoid>>), NilNode) }

LblStatements == LblPlainStatements \cup LblNestedStatements

\* method void f() { ... } and function void g() { ... }
LblSubs ==
    { NewSubroutineDecHead(Kw("method"), Kw("void"), Id("f"),
          NewParameterListNode(<< >>, << >>), << >>),
      NewSubroutineDecHead(Kw("function"), Kw("void"), Id("g"),
          NewParameterListNode(<< >>, << >>), << >>) }

LblNext ==
    \/ GenClassEnter(ClassName, << >>)
    \/ \E sdn \in LblSubs : GenSubroutineEnter(sdn, LblMaxSubs)
    \/ \E st \in LblStatements : GenStatement(st, LblMaxStmts)
    \/ GenSubroutineExit
    \/ GenClassExit

SpecLbl == GenInit /\ [][LblNext]_vars

(***************************************************************************)
(* Parse, then compile: an expression read from tokens by                  *)
(* ParseTree.expression and compiled inside a constructor of class C       *)
(***************************************************************************)
PipeTokens ==
    { Kw("this"), Kw("true"), Kw("false"), Kw("null"), Id("x"), IntTok("1"),
      Sym("-"), Sym("+"), Sym("("), Sym(")") }

\* the token sequences of 1..n tokens
TokenSeqs(n) == UNION { [1..m -> PipeTokens] : m \in 1..n }

\* class C { field int x; constructor C new() { ... } }
PipeClassVarDecs == << NewClassVarDecNode(Kw("field"), Kw("int"), <<Id("x")>>) >>

PipeSub ==
    NewSubroutineDecHead(Kw("constructor"), Id("C"), Id("new"),
                         NewParameterListNode(<< >>, << >>), << >>)

\* the Compiler where the expression is compiled
PipeCompiler ==
    SubroutineDecEnter(ClassEnter(NewCompiler, ClassName, PipeClassVarDecs), PipeSub)

\* a ParseTree created on one of the inputs, and the Compiler
PipeStart(inputs) ==
    /\ LexIdle
    /\ AuxIdle
    /\ input \in inputs
    /\ tz = input
    /\ peeked = NewParseTree(input).peeked
    /\ current = NewParseTree(input).current
    /\ perr = ""
    /\ root = NilNode
    /\ Tbl = PipeCompiler.Tbl
    /\ sb = PipeCompiler.sb
    /\ whileCount = PipeCompiler.whileCount
    /\ ifCount = PipeCompiler.ifCount
    /\ cerr = ""
    /\ pc = "parse"
    /\ cls = [name |-> ClassName, varDecs |-> PipeClassVarDecs]
    /\ last = NoLast
    /\ nSubs = 1
    /\ nStmts = 0
    /\ ret = NoRet
    /\ adds = << >>
    /\ opened = 0

PipeInit == PipeStart(TokenSeqs(MaxToks))

\* ParseTree.Parse with expression as the root production
PipeParse ==
    /\ pc = "parse"
    /\ \E r \in { Pexpression([tz |-> tz, peeked |-> peeked, current |-> current,
                                err |-> ""]) } :
          /\ tz' = r.p.tz
          /\ peeked' = r.p.peeked
          /\ current' = r.p.current
          /\ perr' = r.p.err
          /\ root' = IF r.p.err = "" THEN r.node ELSE NilNode
          /\ pc' = IF r.p.err = "" THEN "compile" ELSE "done"
    /\ UNCHANGED <<input, Tbl, sb, whileCount, ifCount, cerr, cls, last, nSubs, nStmts>>
    /\ UNCHANGED tblVars
    /\ UNCHANGED lexVars
    /\ UNCHANGED auxVars

\* Compiler.Run on the expression the parser built
PipeCompile ==
    /\ pc = "compile"
    /\ Settle(ExpressionCompile(Comp, root), "compiled")
    /\ last' = [op |-> "Expression", node |-> root, from |-> Len(sb)]
    /\ UNCHANGED <<cls, nSubs, nStmts>>
    /\ UNCHANGED tblVars
    /\ UNCHANGED parseVars

PipeNext == PipeParse \/ PipeCompile

SpecPipe == PipeInit /\ [][PipeNext]_vars

\* chains of terms and operators: x, 1 and the operators +, *, -
ExpTokens == { Id("x"), IntTok("1"), Sym("+"), Sym("*"), Sym("-") }

ExpTokenSeqs(n) == UNION { [1..m -> ExpTokens] : m \in 1..n }

ExpInit == PipeStart(ExpTokenSeqs(MaxExpToks))

SpecExp == ExpInit /\ [][PipeNext]_vars

(***************************************************************************)
(* ParseTree.Parse on the tokens of a class, whole, cut short, or with one *)
(* token replaced                                                          *)
(***************************************************************************)
\* let x = 1;   if (x) { return; } else { }   while (x) { do f(); }   return;
ParseStatements ==
    { <<Kw("let"), Id("x"), Sym("="), IntTok("1"), Sym(";")>>,
      <<Kw("if"), Sym("("), Id("x"), Sym(")"), Sym("{"), Kw("return"), Sym(";"),
        Sym("}"), Kw("else"), Sym("{"), Sym("}")>>,
      <<Kw("while"), Sym("("), Id("x"), Sym(")"), Sym("{"), Kw("do"), Id("f"),
        Sym("("), Sym(")"), Sym(";"), Sym("}")>>,
      <<Kw("return"), Sym(";")>> }

\* class C { field int x; function void f(int a) { var int y;
ParseHead ==
    <<Kw("class"), Id("C"), Sym("{"), Kw("field"), Kw("int"), Id("x"), Sym(";"),
      Kw("function"), Kw("void"), Id("f"), Sym("("), Kw("int"), Id("a"), Sym(")"),
      Sym("{"), Kw("var"), Kw("int"), Id("y"), Sym(";")>>

RECURSIVE Flatten(_)
Flatten(ss) == IF ss = << >> THEN << >> ELSE Head(ss) \o Flatten(Tail(ss))

\* the token streams of the classes with 0..n statements in the body of f
ParseClasses(n) ==
    { ParseHead \o Flatten(sts) \o <<Sym("}"), Sym("}")>> :
        sts \in UNION { [1..m -> ParseStatements] : m \in 0..n } }

\* the streams that end before the closing '}' of the class
CutShort(n) ==
    UNION { { SubSeq(ts, 1, k) : k \in 0..(Len(ts) - 1) } : ts \in ParseClasses(n) }

\* a token no production accepts at position i: the keyword class after the
\* first token, a symbol in its place
WrongToken(i) == IF i = 1 THEN Sym("]") ELSE Kw("class")

\* the streams with one token of the wrong kind or value
OneWrong(n) ==
    UNION { { [ts EXCEPT ![i] = WrongToken(i)] : i \in 1..Len(ts) } :
            ts \in ParseClasses(n) }

ParseInit ==
    PipeStart(ParseClasses(ParseMaxStmts) \cup CutShort(ParseMaxStmts)
                \cup OneWrong(ParseMaxStmts))

\* ParseTree.Parse with class as the root production, as NewParseTree sets it
ParseClass ==
    /\ pc = "parse"
    /\ \E r \in { Parse([tz |-> tz, peeked |-> peeked, current |-> current,
                          err |-> ""], "class") } :
          /\ tz' = r.p.tz
          /\ peeked' = r.p.peeked
          /\ current' = r.p.current
          /\ perr' = r.p.err
          /\ root' = r.node
          /\ pc' = "parsed"
    /\ UNCHANGED <<input, Tbl, sb, whileCount, ifCount, cerr, cls, last, nSubs, nStmts>>
    /\ UNCHANGED tblVars
    /\ UNCHANGED lexVars
    /\ UNCHANGED auxVars

ParseNext == ParseClass

SpecParse == ParseInit /\ [][ParseNext]_vars

(***************************************************************************)
(* The parse tree of a class written as XML, as processJackFile does for   *)
(* a file that was parsed without an error                                 *)
(***************************************************************************)
TreeMaxStmts == 2

StrTok(v) == Tok(TokenStringConst, v)

\* let x = <term>;
TreeLet(toks) == <<Kw("let"), Id("x"), Sym("=")>> \o toks \o <<Sym(";")>>

\* the terms without a plain variable: 1  "s"  true  this  a[1]  (1)  -1
\* f()  p.f(1)
TreeTerms ==
    { <<IntTok("1")>>, <<StrTok("s")>>, <<Kw("true")>>, <<Kw("this")>>,
      <<Id("a"), Sym("["), IntTok("1"), Sym("]")>>,
      <<Sym("("), IntTok("1"), Sym(")")>>,
      <<Sym("-"), IntTok("1")>>,
      <<Id("f"), Sym("("), Sym(")")>>,
      <<Id("p"), Sym("."), Id("f"), Sym("("), IntTok("1"), Sym(")")>> }

\* the terms that are or hold a plain variable: y  -y  a[y]
TreeVarTerms ==
    { <<Id("y")>>, <<Sym("-"), Id("y")>>, <<Id("a"), Sym("["), Id("y"), Sym("]")>> }

\* return;  do f();  if (true) { } else { }  while (true) { return 1 + 1; }
TreePlainStatements ==
    { <<Kw("return"), Sym(";")>>,
      <<Kw("do"), Id("f"), Sym("("), Sym(")"), Sym(";")>>,
      <<Kw("if"), Sym("("), Kw("true"), Sym(")"), Sym("{"), Sym("}"), Kw("else"),
        Sym("{"), Sym("}")>>,
      <<Kw("while"), Sym("("), Kw("true"), Sym(")"), Sym("{"), Kw("return"),
        IntTok("1"), Sym("+"), IntTok("1"), Sym(";"), Sym("}")>> }

TreeVarStatements == { TreeLet(tm) : tm \in TreeVarTerms }

TreeStatements ==
    TreePlainStatements \cup { TreeLet(tm) : tm \in TreeTerms }
        \cup TreeVarStatements

\* the classes of ParseHead with up to n of the statements
TreeClasses(n) ==
    { ParseHead \o Flatten(sts) \o <<Sym("}"), Sym("}")>> :
        sts \in UNION { [1..m -> TreeStatements] : m \in 0..n } }

TreeInit == PipeStart(TreeClasses(TreeMaxStmts))

\* writeXmlFile(xmlTreeF, parser): ParseTree.WriteXml on a new XmlBuilder;
\* processJackFile has returned before it if Parse gave an error.  A panic
\* of an Xml method is recovered nowhere and ends the program.
TreeWriteXml ==
    /\ pc = "parsed"
    /\ perr = ""
    /\ \E w \in { IF root # NilNode THEN NodeXml(NewXmlWalk, root) ELSE NewXmlWalk } :
          /\ xb' = w.xb
          /\ pc' = IF w.err = "" THEN "written" ELSE "crashed"
    /\ UNCHANGED <<input, tz, peeked, current, perr, root, Tbl, sb, whileCount,
                   ifCount, cerr, cls, last, nSubs, nStmts, jack, got>>
    /\ UNCHANGED tblVars
    /\ UNCHANGED lexVars

TreeNext == ParseClass \/ TreeWriteXml

SpecTree == TreeInit /\ [][TreeNext]_vars

(***************************************************************************)
(* The Tokenizer on bytes: ReadToken called until it returns an error      *)
(***************************************************************************)
\* a Tokenizer created on one of the inputs
LexStart(inputs) ==
    /\ AuxIdle
    /\ input \in inputs
    /\ lexer = NewTokenizer(input)
    /\ lexed = << >>
    /\ lerr = ""
    /\ tz = << >>
    /\ peeked = NewParseTree(<< >>).peeked
    /\ current = NilToken
    /\ perr = ""
    /\ root = NilNode
    /\ Tbl = NewCompiler.Tbl
    /\ sb = NewCompiler.sb
    /\ whileCount = NewCompiler.whileCount
    /\ ifCount = NewCompiler.ifCount
    /\ cerr = ""
    /\ pc = "lex"
    /\ cls = NoClass
    /\ last = NoLast
    /\ nSubs = 0
    /\ nStmts = 0
    /\ ret = NoRet
    /\ adds = << >>
    /\ opened = 0

\* Tokenizer.ReadToken; io.EOF ends the reading, any other error fails it
LexReadToken ==
    /\ pc = "lex"
    /\ \E r \in { ReadToken(lexer) } :
          /\ lexer' = r.z
          /\ lexed' = IF r.tok # NilToken THEN Append(lexed, r.tok) ELSE lexed
          /\ lerr' = r.err
          /\ pc' = IF r.err = "" THEN "lex" ELSE IF r.err = "EOF" THEN "lexed" ELSE "failed"
    /\ UNCHANGED <<input, tz, peeked, current, perr, root>>
    /\ UNCHANGED <<Tbl, sb, whileCount, ifCount, cerr, cls, last, nSubs, nStmts>>
    /\ UNCHANGED tblVars
    /\ UNCHANGED auxVars

LexNext == LexReadToken

\* the byte sequences of 0..n bytes of an alphabet
ByteSeqs(alphabet, n) == UNION { [1..m -> alphabet] : m \in 0..n }

\* words, blanks, newlines and inline comments
PosBytes == {"a", " ", "\t", "\r", "\n", "/"}

PosInit == LexStart(ByteSeqs(PosBytes, MaxPosBytes))

SpecPos == PosInit /\ [][LexNext]_vars

\* words, blanks, newlines, comments of both kinds and string constants
LexBytes == {"a", " ", "\n", "/", "*", "\""}

LexInit == LexStart(ByteSeqs(LexBytes, MaxLexBytes))

SpecLex == LexInit /\ [][LexNext]_vars

\* words of letters, digits and '_', separated by blanks and the symbol ';'
WordBytes == {"d", "o", "_", "1", " ", ";"}

WordInit == LexStart(ByteSeqs(WordBytes, MaxWordBytes))

SpecWord == WordInit /\ [][LexNext]_vars

\* what stands between tokens: a blank, a newline, an inline comment with
\* its newline, a block comment, an empty block comment
RunPieces ==
    { <<" ">>, <<"\n">>, <<"/", "/", "a", "\n">>, <<"/", "*", "a", "*", "/">>,
      <<"/", "*", "*", "/">> }

RECURSIVE RunsOf(_)
\* the runs of n pieces
RunsOf(n) ==
    IF n = 0 THEN { << >> }
    ELSE { piece \o run : piece \in RunPieces, run \in RunsOf(n - 1) }

\* the runs of 1..MaxRunPieces pieces
Runs == UNION { RunsOf(n) : n \in 1..MaxRunPieces }

\* the end of the input after the last run: nothing, or an inline comment
\* without its newline
RunTrails == { << >>, <<"/", "/", "a">> }

RunToks == { <<"a">>, <<";">> }

\* a run up to the end of the input; a run and a token; a token and a run;
\* two tokens with a run after each
RunInputs ==
    { run \o trail : run \in Runs, trail \in RunTrails }
    \cup { run \o tok : run \in Runs, tok \in RunToks }
    \cup { tok \o run \o trail : tok \in RunToks, run \in Runs, trail \in RunTrails }
    \cup { tok1 \o run1 \o tok2 \o run2 :
             tok1 \in RunToks, run1 \in Runs, tok2 \in RunToks, run2 \in Runs }

RunInit == LexStart(RunInputs)

SpecRun == RunInit /\ [][LexNext]_vars

(***************************************************************************)
(* The Tokenizer followed by varDec, as TestDecNode runs them              *)
(***************************************************************************)
\* the bytes of a word
Spell(word) ==
    CASE word = "var" -> <<"v", "a", "r">>
      [] word = "int" -> <<"i", "n", "t">>
      [] word = "char" -> <<"c", "h", "a", "r">>
      [] word = "boolean" -> <<"b", "o", "o", "l", "e", "a", "n">>
      [] word = "bool" -> <<"b", "o", "o", "l">>
      [] word = "class" -> <<"c", "l", "a", "s", "s">>
      [] word = "void" -> <<"v", "o", "i", "d">>
      [] word = "MyClass" -> <<"M", "y", "C", "l", "a", "s", "s">>

\* what a declaration is given as its type
DecTypes == {"int", "char", "boolean", "bool", "class", "void", "var", "MyClass"}

DecNames == <<"a", "b", "c", "d">>

DecSeps == {" ", "\t", "\n"}

RECURSIVE DecNameList(_)
\* a, b, ... : n names
DecNameList(n) ==
    IF n = 1 THEN <<DecNames[1]>>
    ELSE DecNameList(n - 1) \o <<",", DecNames[n]>>

\* var <type> <names>;
DecInput(type, n, sep) ==
    Spell("var") \o <<sep>> \o Spell(type) \o <<sep>> \o DecNameList(n) \o <<";">>

DecInit ==
    LexStart({ DecInput(type, n, sep) :
                 type \in DecTypes, n \in 1..DecMaxNames, sep \in DecSeps })

\* Parse with varDec as the root, on the tokens the Tokenizer returns
ParseVarDec ==
    /\ pc = "lexed"
    /\ \E r \in { Parse(NewParseTree(lexed), "varDec") } :
          /\ tz' = r.p.tz
          /\ peeked' = r.p.peeked
          /\ current' = r.p.current
          /\ perr' = r.p.err
          /\ root' = r.node
    /\ pc' = "parsed"
    /\ UNCHANGED <<input, Tbl, sb, whileCount, ifCount, cerr, cls, last, nSubs, nStmts>>
    /\ UNCHANGED tblVars
    /\ UNCHANGED lexVars
    /\ UNCHANGED auxVars

DecNext == LexReadToken \/ ParseVarDec

SpecDec == DecInit /\ [][DecNext]_vars

(***************************************************************************)
(* jack.go: main, one processJackFile goroutine per file, gatherErrs and   *)
(* its goroutine.  The channels errCh and done are unbuffered: a send and  *)
(* its receive are one step.                                               *)
(***************************************************************************)
\* everything but the dispatcher, the XmlBuilder and the tokens taken
coreVars ==
    <<Tbl, ret, adds, opened, sb, whileCount, ifCount, cerr, pc, cls, last,
      nSubs, nStmts, input, tz, peeked, current, perr, root, lexer, lexed, lerr>>

\* the exit codes
argFail == 1
fsFail == 2
compFail == 3

\* what happens to a file: nothing fails, os.Open fails, Parse returns an
\* error, Compiler.Run returns an error
FileKinds == {"ok", "open", "parse", "compile"}

Workers == DOMAIN jack.kind

\* a wg.Wait that returns at once, for comparison
WaitReturns_AtOnce(j) == TRUE

\* wg.Wait returns when the counter is zero
WaitReturns(j) == j.wg = 0

JackInit ==
    /\ Tbl = NewCompiler.Tbl
    /\ ret = NoRet
    /\ adds = << >>
    /\ opened = 0
    /\ GenIdle
    /\ ParseIdle
    /\ xb = NewXmlBuilder
    /\ got = NoCalls
    /\ jack \in { NewJack(kinds) : kinds \in UNION { [1..n -> FileKinds] : n \in 0..MaxFiles } }

\* main: wg.Add(1); go processJackFile(...) for the next file
JackSpawn ==
    /\ jack.main = "spawn"
    /\ jack.spawned < Len(jack.kind)
    /\ jack' = [jack EXCEPT !.spawned = @ + 1,
                            !.wg = @ + 1,
                            !.wpc[jack.spawned + 1] = "start"]
    /\ UNCHANGED coreVars
    /\ UNCHANGED <<xb, got>>

\* main calls gatherErrs, which starts its goroutine and enters the select
JackGather ==
    /\ jack.main = "spawn"
    /\ jack.spawned = Len(jack.kind)
    /\ jack' = [jack EXCEPT !.main = "select", !.waiter = "wait"]
    /\ UNCHANGED coreVars
    /\ UNCHANGED <<xb, got>>

\* processJackFile up to its first send on errCh, or to writeVmFile when
\* nothing failed
JackProcess(w) ==
    /\ jack.wpc[w] = "start"
    /\ jack' = [jack EXCEPT !.wpc[w] =
                   IF jack.kind[w] \in {"open", "parse"} THEN "sendReturn"
                   ELSE IF jack.kind[w] = "compile" THEN "sendWrite"
                   ELSE "write"]
    /\ UNCHANGED coreVars
    /\ UNCHANGED <<xb, got>>

\* errCh <- err, received by the select of gatherErrs; after an error of
\* os.Open or Parse the worker returns, after an error of Compiler.Run it
\* goes on
JackSend(w) ==
    /\ jack.wpc[w] \in {"sendReturn", "sendWrite"}
    /\ jack.main = "select"
    /\ jack' = [jack EXCEPT !.errs = Append(@, [file |-> w, stage |-> jack.kind[w]]),
                            !.wpc[w] = IF jack.wpc[w] = "sendReturn" THEN "return"
                                       ELSE "write"]
    /\ UNCHANGED coreVars
    /\ UNCHANGED <<xb, got>>

\* writeVmFile(vmFileName, compiler)
JackWrite(w) ==
    /\ jack.wpc[w] = "write"
    /\ jack' = [jack EXCEPT !.vm = @ \cup {w}, !.wpc[w] = "return"]
    /\ UNCHANGED coreVars
    /\ UNCHANGED <<xb, got>>

\* the deferred wg.Done()
JackDone(w) ==
    /\ jack.wpc[w] = "return"
    /\ jack' = [jack EXCEPT !.wg = @ - 1, !.wpc[w] = "done"]
    /\ UNCHANGED coreVars
    /\ UNCHANGED <<xb, got>>

\* the goroutine of gatherErrs: wg.Wait() returns
JackWait ==
    /\ jack.waiter = "wait"
    /\ WaitReturns(jack)
    /\ jack' = [jack EXCEPT !.waiter = "send"]
    /\ UNCHANGED coreVars
    /\ UNCHANGED <<xb, got>>

\* done <- true, received by the select: gatherErrs returns errs
JackReturn ==
    /\ jack.waiter = "send"
    /\ jack.main = "select"
    /\ jack' = [jack EXCEPT !.waiter = "end", !.main = "report"]
    /\ UNCHANGED coreVars
    /\ UNCHANGED <<xb, got>>

\* main: os.Exit(compFail) when errors were gathered, else the end of main
JackExit ==
    /\ jack.main = "report"
    /\ jack' = [jack EXCEPT !.main = "exited",
                            !.exit = IF Len(jack.errs) > 0 THEN compFail ELSE 0]
    /\ UNCHANGED coreVars
    /\ UNCHANGED <<xb, got>>

JackNext ==
    \/ JackSpawn
    \/ JackGather
    \/ \E w \in Workers : JackProcess(w)
    \/ \E w \in Workers : JackSend(w)
    \/ \E w \in Workers : JackWrite(w)
    \/ \E w \in Workers : JackDone(w)
    \/ JackWait
    \/ JackReturn
    \/ JackExit

SpecJack == JackInit /\ [][JackNext]_vars

\* every goroutine that can run does run
SpecJackLive == SpecJack /\ WF_vars(JackNext)

(***************************************************************************)
(* The XmlBuilder driven by arbitrary calls                                *)
(***************************************************************************)
XmlNames == {"level1", "level2"}

XmlTokens == {Tok(TokenKeyword, "var"), Tok(TokenSymbol, "<")}

XmlInit ==
    /\ Tbl = NewCompiler.Tbl
    /\ ret = NoRet
    /\ adds = << >>
    /\ opened = 0
    /\ GenIdle
    /\ ParseIdle
    /\ AuxIdle

\* a call is made while the builder has not panicked
XmlCallable == ~xb.panic /\ Len(xb.sb) < MaxXmlCalls

DoXbOpen(name) ==
    /\ XmlCallable
    /\ xb' = XbOpen(xb, name)
    /\ UNCHANGED coreVars
    /\ UNCHANGED <<jack, got>>

DoXbClose ==
    /\ XmlCallable
    /\ xb' = XbClose(xb)
    /\ UNCHANGED coreVars
    /\ UNCHANGED <<jack, got>>

DoXbWriteToken(tk) ==
    /\ XmlCallable
    /\ xb' = XbWriteToken(xb, tk)
    /\ UNCHANGED coreVars
    /\ UNCHANGED <<jack, got>>

XmlNext ==
    \/ \E name \in XmlNames : DoXbOpen(name)
    \/ DoXbClose
    \/ \E tk \in XmlTokens : DoXbWriteToken(tk)

SpecXml == XmlInit /\ [][XmlNext]_vars

(***************************************************************************)
(* The lookahead of the ParseTree driven by arbitrary calls of next and    *)
(* peek; peek(1) is called with slot 0 filled, as ParseTree.term does      *)
(***************************************************************************)
PeekTokens == {Id("a"), Sym("[")}

PeekInit == PipeStart(UNION { [1..m -> PeekTokens] : m \in 0..MaxPeekToks })

\* the ParseTree of the state
TheParseTree == [tz |-> tz, peeked |-> peeked, current |-> current, err |-> perr]

\* the ParseTree after a call
ParseTreeBecomes(p) ==
    /\ tz' = p.tz
    /\ peeked' = p.peeked
    /\ current' = p.current
    /\ perr' = p.err

PeekUnchanged ==
    /\ UNCHANGED <<Tbl, ret, adds, opened, sb, whileCount, ifCount, cerr, pc, cls, last,
                   nSubs, nStmts, input, root, lexer, lexed, lerr, jack, xb>>

\* t.next()
DoNext ==
    /\ perr = ""
    /\ \E r \in { Pnext(TheParseTree) } :
          /\ ParseTreeBecomes(r.p)
          /\ got' = [tokens |-> IF r.p.err = "" THEN Append(got.tokens, r.tok)
                                ELSE got.tokens,
                     call |-> "next", tok |-> r.tok]
    /\ PeekUnchanged

\* t.peek(fw)
DoPeek(fw) ==
    /\ perr = ""
    /\ fw = 1 => peeked[1] # NilToken
    /\ \E r \in { Ppeek(TheParseTree, fw) } :
          /\ ParseTreeBecomes(r.p)
          /\ got' = [got EXCEPT !.call = IF fw = 0 THEN "peek0" ELSE "peek1",
                                !.tok = r.tok]
    /\ PeekUnchanged

PeekNext == DoNext \/ DoPeek(0) \/ DoPeek(1)

SpecPeek == PeekInit /\ [][PeekNext]_vars

(***************************************************************************)
(* Claims about the symbol environment                                     *)
(***************************************************************************)
Top == Len(Tbl)

\* the names table st holds with kind k
NamesOfKind(st, k) == {n \in DOMAIN st.table : st.table[n].Kind = k}

\* the open tables that hold name n
Holders(n) == {i \in 1..Len(Tbl) : n \in DOMAIN Tbl[i].table}

MaxOf(S) == CHOOSE m \in S : \A x \in S : x <= m

C1_OffsetsState ==
    /\ \A i \in 1..Len(Tbl), k \in VarKind :
          /\ Tbl[i].counter[k] = adds[i][k]
          /\ Cardinality(NamesOfKind(Tbl[i], k)) = adds[i][k]
          /\ {Tbl[i].table[n].Offset : n \in NamesOfKind(Tbl[i], k)}
                = 0..(adds[i][k] - 1)
    /\ (ret.op = "AddVar" /\ ret.err = "") =>
          LET vi == Tbl[Top].table[ret.name]
          IN vi.Offset = adds[Top][vi.Kind] - 1
    /\ ret.op = "CreateTable" => \A k \in VarKind : Tbl[Top].counter[k] = 0

C1_CountersStep ==
    Len(Tbl') = Len(Tbl) =>
        /\ \A i \in 1..Len(Tbl), k \in VarKind :
              Tbl'[i].counter[k] >= Tbl[i].counter[k]
        /\ Cardinality({<<i, k>> \in (1..Len(Tbl)) \X VarKind :
                           Tbl'[i].counter[k] # Tbl[i].counter[k]}) <= 1

\* C1: every successful AddVar(k, _, n) stores for n an offset equal to the
\* number of earlier successful AddVar calls with kind k in that table; the
\* four counters of a table start at 0, move independently of each other
\* and never decrease.
C1_OffsetIsPriorCount == []C1_OffsetsState /\ [][C1_CountersStep]_vars

\* A second variable of one kind got offset 1 in the innermost table while
\* the outer table numbers its own variable of that kind 0.
C1_Witness ==
    /\ Len(Tbl) = 2
    /\ ret.op = "AddVar" /\ ret.err = ""
    /\ Tbl[2].table[ret.name].Offset = 1
    /\ \E n \in DOMAIN Tbl[1].table :
          /\ Tbl[1].table[n].Kind = Tbl[2].table[ret.name].Kind
          /\ Tbl[1].table[n].Offset = 0

\* C2: GetVarInfo(name) returns the VarInfo of the innermost open table that
\* holds name, fails exactly when no open table holds it, and IsVar(name) is
\* true exactly when GetVarInfo(name) succeeds.
C2_InnermostLookup ==
    \A n \in TblNames :
        LET r == ListGetVarInfo(Tbl, n)
        IN /\ r.err <=> Holders(n) = {}
           /\ ~r.err => r.vi = Tbl[MaxOf(Holders(n))].table[n]
           /\ IsVar(Tbl, n) <=> ~r.err

\* x is declared in both open tables with different entries, the lookup
\* yields the inner one, and y is declared nowhere.
C2_Witness ==
    /\ Len(Tbl) = 2
    /\ Holders("x") = {1, 2}
    /\ Tbl[1].table["x"] # Tbl[2].table["x"]
    /\ ListGetVarInfo(Tbl, "x").vi = Tbl[2].table["x"]
    /\ Holders("y") = {}
    /\ ~IsVar(Tbl, "y")

C3_AddVarStep ==
    (ret'.op = "AddVar" /\ Len(Tbl) > 0) =>
        /\ ret'.err = "dup" <=> ret'.name \in DOMAIN Tbl[Top].table
        /\ ret'.err = "dup" => (Tbl' = Tbl /\ adds' = adds)
        /\ ret'.err # "dup" => ret'.name \in DOMAIN Tbl'[Top].table

\* C3: AddVar fails with a duplicate-name error iff the name is already in
\* the innermost table (an outer table's entry does not matter), and a
\* failed AddVar leaves every entry and every counter as it was.
C3_DuplicateOnlyInnermost == [][C3_AddVarStep]_vars

\* An AddVar failed on the innermost of two tables.
C3_Witness ==
    /\ Len(Tbl) = 2
    /\ ret.op = "AddVar" /\ ret.err = "dup"
    /\ ret.name \in DOMAIN Tbl[2].table
    /\ ret.name \notin DOMAIN Tbl[1].table

C4_DepthState ==
    /\ ListLen(Tbl) = opened
    /\ ret.op = "CreateTable" =>
          /\ DOMAIN Tbl[Top].table = {}
          /\ \A k \in VarKind : Tbl[Top].counter[k] = 0

C4_CloseStep ==
    (ret'.op = "CloseTable" /\ Len(Tbl) > 0) =>
        Tbl' = SubSeq(Tbl, 1, Len(Tbl) - 1)

\* C4: Len() is the number of CreateTable calls minus the number of matched
\* CloseTable calls, CloseTable removes the most recently created open table
\* and leaves the others, and a table created afterwards is empty with all
\* counters 0.
C4_LenIsCreatesMinusCloses == []C4_DepthState /\ [][C4_CloseStep]_vars

\* The inner of two tables was closed, leaving the outer one with its
\* variables.
C4_Witness ==
    /\ ret.op = "CloseTable"
    /\ Len(Tbl) = 1
    /\ opened = 1
    /\ DOMAIN Tbl[1].table # {}

(***************************************************************************)
(* Claims about the generated code                                         *)
(***************************************************************************)
\* the lines the last step of the walk appended
Emitted == SubSeq(sb, last.from + 1, Len(sb))

\* the last step compiled a statement of the given kind and Run goes on
Compiled(nodeType) ==
    /\ pc = "body"
    /\ cerr = ""
    /\ last.op = "Statement"
    /\ last.node.NodeType = nodeType

\* the code of expression e alone, in the tables now open
CodeOf(e) ==
    ExpressionCompile([sb |-> << >>, whileCount |-> whileCount, ifCount |-> ifCount,
                       Tbl |-> Tbl, err |-> ""], e).sb

RECURSIVE CodeOfAllFrom(_, _)
CodeOfAllFrom(exprs, i) ==
    IF i > Len(exprs) THEN << >>
    ELSE CodeOf(exprs[i]) \o CodeOfAllFrom(exprs, i + 1)

\* the code of the expressions in source order
CodeOfAll(exprs) == CodeOfAllFrom(exprs, 1)

\* the entry of the innermost open table that holds n
Innermost(n) == Tbl[MaxOf(Holders(n))].table[n]

PushOfVar(n) ==
    "push " \o vKinds[Innermost(n).Kind] \o " " \o ToString(Innermost(n).Offset)

\* the call pushes a receiver: no prefix, or a prefix that is a variable
PushesReceiver(scn) ==
    scn.Prefix = NilToken \/ Holders(scn.Prefix.val) # {}

ReceiverPush(scn) ==
    IF scn.Prefix = NilToken THEN "push pointer 0" ELSE PushOfVar(scn.Prefix.val)

\* target and argument count of a call as the three cases give them
TargetOf(scn) ==
    IF scn.Prefix = NilToken THEN cls.name.val \o "." \o scn.SubroutineName.val
    ELSE IF Holders(scn.Prefix.val) # {}
         THEN Innermost(scn.Prefix.val).Type \o "." \o scn.SubroutineName.val
    ELSE scn.Prefix.val \o "." \o scn.SubroutineName.val

ArgCountOf(scn) ==
    IF PushesReceiver(scn) THEN Len(scn.Params.Exprs) + 1 ELSE Len(scn.Params.Exprs)

CallLine(scn) == "call " \o TargetOf(scn) \o " " \o ToString(ArgCountOf(scn))

\* C5: a call that pushes a receiver emits the receiver push first, then the
\* code of each argument in source order, then the call line (a do statement
\* ends with pop temp 0).
C5_ReceiverBeforeArguments ==
    (Compiled("DoStatement") /\ PushesReceiver(last.node.Call)) =>
        Emitted = <<ReceiverPush(last.node.Call)>>
                  \o CodeOfAll(last.node.Call.Params.Exprs)
                  \o <<CallLine(last.node.Call), "pop temp 0">>

\* C7: let a[I] = E emits the push of a, the code of I, add, the code of E,
\* pop temp 0, pop pointer 1, push temp 0, pop that 0, so the statement's own
\* pop pointer 1 is the last pop pointer 1 of the statement.
C7_ArrayLetOrder ==
    (Compiled("LetStatement") /\ ~IsNil(last.node.ArrayExp)) =>
        /\ Emitted = <<PushOfVar(last.node.VarName.val)>>
                     \o CodeOf(last.node.ArrayExp)
                     \o <<"add">>
                     \o CodeOf(last.node.ValueExp)
                     \o <<"pop temp 0", "pop pointer 1", "push temp 0", "pop that 0">>
        /\ \A j \in 1..Len(Emitted) :
              Emitted[j] = "pop pointer 1" => j <= Len(Emitted) - 2

\* let a[i] = a[1] compiled: the right side reads an array and so sets THAT
\* itself before the statement does.
C7_Witness ==
    /\ Compiled("LetStatement")
    /\ last.node.VarName.val = "a"
    /\ last.node.ArrayExp = E_i
    /\ last.node.ValueExp = E_a1
    /\ Len(Emitted) = 12
    /\ Cardinality({j \in 1..Len(Emitted) : Emitted[j] = "pop pointer 1"}) = 2

\* C10: the call line of a call with n arguments names <type of var>.<name>
\* with n+1 arguments when the prefix is a variable of an open table,
\* <prefix>.<name> with n arguments when the prefix is no variable, and
\* <enclosing class>.<name> with n+1 arguments when there is no prefix.
C10_CallTargetAndArgCount ==
    Compiled("DoStatement") =>
        /\ Len(Emitted) >= 2
        /\ Emitted[Len(Emitted) - 1] = CallLine(last.node.Call)
        /\ \A j \in 1..Len(last.node.Call.Params.Exprs) :
              LET t == last.node.Call.Params.Exprs[j].term
              IN t.termType = "termNodeCall" =>
                    \E i \in 1..Len(Emitted) : Emitted[i] = CallLine(t.call)

\* do m(i, 1) compiled inside method f of class C: call C.m 3.
C10_Witness ==
    /\ Compiled("DoStatement")
    /\ last.node.Call.Prefix = NilToken
    /\ Len(last.node.Call.Params.Exprs) = 2
    /\ Len(Tbl) = 2
    /\ Tbl[2].Name = "C.f"
    /\ Emitted[Len(Emitted) - 1] = "call C.m 3"

\* the last step entered a subroutine of the given kind and Run goes on
Entered(kind) ==
    /\ pc = "body"
    /\ cerr = ""
    /\ last.op = "SubroutineEnter"
    /\ last.node.SbrKind.val = kind

\* the k-th declared parameter (k from 1) of the subroutine just entered is an
\* Arg of its declared type at offset k - 1 + shift
ParamsShiftedBy(shift) ==
    LET pln == last.node.ParamList
    IN \A k \in 1..Len(pln.varNames) :
          /\ pln.varNames[k].val \in DOMAIN Tbl[Top].table
          /\ Tbl[Top].table[pln.varNames[k].val]
                = VarInfo(Arg, pln.varTypes[k].val, k - 1 + shift)

C8_Method ==
    Entered("method") =>
        /\ "this" \in DOMAIN Tbl[Top].table
        /\ Tbl[Top].table["this"] = VarInfo(Arg, cls.name.val, 0)
        /\ ParamsShiftedBy(1)
        /\ Len(Emitted) = 3
        /\ Emitted[1] = "function " \o cls.name.val \o "." \o last.node.Name.val
                        \o " " \o ToString(LocalVarLen(last.node.VarDec))
        /\ Emitted[2] = "push argument 0"
        /\ Emitted[3] = "pop pointer 0"

C8_FunctionOrConstructor ==
    (Entered("function") \/ Entered("constructor")) =>
        /\ "this" \notin DOMAIN Tbl[Top].table
        /\ ParamsShiftedBy(0)
        /\ \A j \in 1..Len(Emitted) : Emitted[j] # "push argument 0"

\* C8: a method registers this as Arg 0 of the enclosing class type before
\* its declared parameters, so the k-th parameter (k from 0) has argument
\* offset k+1, and emits push argument 0, pop pointer 0 right after the
\* function line; a function or constructor registers no this and its k-th
\* parameter has argument offset k.
C8_ThisIsArgumentZero == C8_Method /\ C8_FunctionOrConstructor

\* method void k(P p, int i) entered: this, p, i are arguments 0, 1, 2.
C8_Witness ==
    /\ Entered("method")
    /\ Len(last.node.ParamList.varNames) = 2
    /\ Tbl[Top].table["this"].Offset = 0
    /\ Tbl[Top].table["p"].Offset = 1
    /\ Tbl[Top].table["i"].Offset = 2
    /\ Emitted = <<"function C.k 2", "push argument 0", "pop pointer 0">>

RECURSIVE FieldNamesFrom(_, _)
FieldNamesFrom(varDecs, i) ==
    IF i > Len(varDecs) THEN 0
    ELSE (IF varDecs[i].Kind.val = "field" THEN Len(varDecs[i].Names) ELSE 0)
         + FieldNamesFrom(varDecs, i + 1)

\* the number of names the class declares with kind field
FieldNames(varDecs) == FieldNamesFrom(varDecs, 1)

\* C9: a constructor, wherever it stands among the subroutines of the class,
\* emits after its function line push constant <fieldCount>,
\* call Memory.alloc 1, pop pointer 0, where fieldCount is the number of
\* names the class declares with kind field.
C9_ConstructorAllocatesFields ==
    Entered("constructor") =>
        /\ Len(Emitted) = 4
        /\ SubSeq(Emitted, 2, 4)
              = <<"push constant " \o ToString(FieldNames(cls.varDecs)),
                  "call Memory.alloc 1", "pop pointer 0">>

\* A constructor entered as the second subroutine of a class with one static
\* and two fields, after a subroutine with parameters and locals.
C9_Witness ==
    /\ Entered("constructor")
    /\ nSubs = 2
    /\ Len(cls.varDecs) = 2
    /\ sb[1] = "function C.k 2"
    /\ Emitted[2] = "push constant 2"

\* the parser read the whole input and the expression it built compiled
PipeCompiled ==
    /\ pc = "compiled"
    /\ cerr = ""
    /\ tz = << >>
    /\ peeked = <<NilToken, NilToken>>

Occurrences(seq, x) == Cardinality({j \in 1..Len(seq) : seq[j] = x})

\* C6: parsed and then compiled, the term this is push pointer 0, true is
\* push constant 0 followed by not, false and null are push constant 0; in
\* an expression without identifiers each this gives one push pointer 0.
C6_ThisPushesPointer ==
    PipeCompiled =>
        /\ input = <<Kw("this")>> => Emitted = <<"push pointer 0">>
        /\ input = <<Kw("true")>> => Emitted = <<"push constant 0", "not">>
        /\ input \in {<<Kw("false")>>, <<Kw("null")>>} => Emitted = <<"push constant 0">>
        /\ (\A j \in 1..Len(input) : input[j].type # TokenIdentifier) =>
              Occurrences(Emitted, "push pointer 0") = Occurrences(input, Kw("this"))

(***************************************************************************)
(* Claims about labels                                                     *)
(***************************************************************************)
RECURSIVE CountIn(_, _)
RECURSIVE CountInList(_, _, _)

CountInList(stList, nodeType, i) ==
    IF i > Len(stList) THEN 0
    ELSE CountIn(stList[i], nodeType) + CountInList(stList, nodeType, i + 1)

\* the statements of the given kind in st, st itself included
CountIn(st, nodeType) ==
    (IF st.NodeType = nodeType THEN 1 ELSE 0)
    + (CASE st.NodeType = "IfStatement" ->
                CountInList(st.IfStat.StList, nodeType, 1)
                + (IF IsNil(st.ElseStat) THEN 0
                   ELSE CountInList(st.ElseStat.StList, nodeType, 1))
         [] st.NodeType = "WhileStatement" -> CountInList(st.Stat.StList, nodeType, 1)
         [] OTHER -> 0)

RECURSIVE LabelsIn(_)
RECURSIVE LabelsInList(_, _)

LabelsInList(stList, i) ==
    IF i > Len(stList) THEN 0
    ELSE LabelsIn(stList[i]) + LabelsInList(stList, i + 1)

\* the label lines the statement needs: two per while, one per if and one
\* more per else
LabelsIn(st) ==
    CASE st.NodeType = "IfStatement" ->
            1 + LabelsInList(st.IfStat.StList, 1)
            + (IF IsNil(st.ElseStat) THEN 0
               ELSE 1 + LabelsInList(st.ElseStat.StList, 1))
      [] st.NodeType = "WhileStatement" -> 2 + LabelsInList(st.Stat.StList, 1)
      [] OTHER -> 0

\* the name of the subroutine being compiled
CurrentFn == Tbl[Top].Name

\* the code of a list of statements alone, compiled with the given counters
BranchCode(sn, w, i) ==
    StatementsCompile([sb |-> << >>, whileCount |-> w, ifCount |-> i, Tbl |-> Tbl,
                       err |-> ""], sn)

\* C11: an if statement emits the code of the condition, not, if-goto ELSE_i
\* (with an else branch) or if-goto IF_END_i (without), the code of the
\* then-branch, with an else branch goto IF_END_i, label ELSE_i and the code
\* of the else-branch, and last label IF_END_i; each label the statement
\* jumps to is defined by exactly one label line, and label ELSE_i exists
\* only with an else branch.
C11_IfOrder ==
    Compiled("IfStatement") =>
        LET ifn == last.node
            i == ifCount - CountIn(ifn, "IfStatement")
            w == whileCount - CountIn(ifn, "WhileStatement")
            els == CurrentFn \o "$ELSE_" \o ToString(i)
            end == CurrentFn \o "$IF_END_" \o ToString(i)
            hasElse == ~IsNil(ifn.ElseStat)
            thenC == BranchCode(ifn.IfStat, w, i + 1)
            elseC == BranchCode(ifn.ElseStat, thenC.whileCount, thenC.ifCount)
        IN /\ i >= 0 /\ w >= 0
           /\ Emitted = CodeOf(ifn.IfExpr)
                        \o <<"not", "if-goto " \o (IF hasElse THEN els ELSE end)>>
                        \o thenC.sb
                        \o (IF hasElse
                            THEN <<"goto " \o end, "label " \o els>> \o elseC.sb
                            ELSE << >>)
                        \o <<"label " \o end>>
           /\ Occurrences(Emitted, "label " \o end) = 1
           /\ Occurrences(Emitted, "label " \o els) = (IF hasElse THEN 1 ELSE 0)

\* The second if statement of method f compiled: it has a while in its then
\* branch and an if in its else branch, and ends with label C.f$IF_END_1.
C11_Witness ==
    /\ Compiled("IfStatement")
    /\ ~IsNil(last.node.ElseStat)
    /\ CountIn(last.node, "WhileStatement") = 1
    /\ CountIn(last.node, "IfStatement") = 2
    /\ Emitted[Len(Emitted)] = "label C.f$IF_END_1"
    /\ Occurrences(Emitted, "label C.f$ELSE_1") = 1

LblFns == { "C." \o sdn.Name.val : sdn \in LblSubs }

LabelKinds == { "$ELSE_", "$IF_END_", "$WHILE_BEGIN_", "$WHILE_END_" }

\* every label line the statements compiled so far can have produced
LabelLines ==
    { "label " \o fn \o kind \o ToString(n) :
        fn \in LblFns, kind \in LabelKinds, n \in 0..(ifCount + whileCount) }

FunctionLines == { "function " \o fn \o " 0" : fn \in LblFns }

\* where the lines of the subroutine entered last begin
SubStart == MaxOf({j \in 1..Len(sb) : sb[j] \in FunctionLines})

LabelCount(lines) == Cardinality({j \in 1..Len(lines) : lines[j] \in LabelLines})

\* C12: within one subroutine every label name occurs in exactly one label
\* line, whatever the nesting and sequence of if and while statements, and
\* each statement gets all the label lines it needs.
C12_LabelsUnique ==
    /\ (\E j \in 1..Len(sb) : sb[j] \in FunctionLines) =>
          \A l \in LabelLines :
              Occurrences(SubSeq(sb, SubStart, Len(sb)), l) <= 1
    /\ (pc = "body" /\ cerr = "" /\ last.op = "Statement") =>
          LabelCount(Emitted) = LabelsIn(last.node)

\* A while nested in a while compiled after another while statement of the
\* same subroutine: six label lines, all different.
C12_Witness ==
    /\ Compiled("WhileStatement")
    /\ CountIn(last.node, "WhileStatement") = 2
    /\ whileCount = 3
    /\ LabelCount(SubSeq(sb, SubStart, Len(sb))) = 6
    /\ Occurrences(sb, "label " \o CurrentFn \o "$WHILE_BEGIN_2") = 1

\* C13: the first if statement of every subroutine gets the labels
\* <Class>.<sub>$ELSE_0 and <Class>.<sub>$IF_END_0 and the first while
\* statement <Class>.<sub>$WHILE_BEGIN_0 and <Class>.<sub>$WHILE_END_0,
\* whatever earlier subroutines contained.
C13_CountersStartAtZero ==
    ((Compiled("IfStatement") \/ Compiled("WhileStatement"))
        /\ LabelCount(SubSeq(sb, SubStart, last.from)) = 0) =>
        /\ Compiled("IfStatement") =>
              Emitted[Len(Emitted)] = "label " \o CurrentFn \o "$IF_END_0"
        /\ Compiled("WhileStatement") =>
              /\ Emitted[1] = "label " \o CurrentFn \o "$WHILE_BEGIN_0"
              /\ Emitted[Len(Emitted)] = "label " \o CurrentFn \o "$WHILE_END_0"

(***************************************************************************)
(* Claims about expressions                                                *)
(***************************************************************************)
\* the input is t0 op1 t1 ... opn tn with one-token terms
IsChain(toks) ==
    /\ Len(toks) % 2 = 1
    /\ \A j \in 1..Len(toks) :
          IF j % 2 = 1 THEN toks[j].type \in {TokenIdentifier, TokenIntegerConst}
          ELSE toks[j].type = TokenSymbol

\* the term node and the line of a one-token term
ChainTerm(tok) ==
    IF tok.type = TokenIntegerConst THEN NewIntConstTermNode(tok)
    ELSE NewVarTermNode(tok)

ChainPush(tok) ==
    IF tok.type = TokenIntegerConst THEN "push constant " \o tok.val
    ELSE PushOfVar(tok.val)

Lower(op) ==
    CASE op = "+" -> "add"
      [] op = "-" -> "sub"
      [] op = "*" -> "call Math.multiply 2"

\* code(t0), then code(tk), lower(opk) for k = 1..n
ChainCode(toks) ==
    [j \in 1..Len(toks) |->
        IF j = 1 THEN ChainPush(toks[1])
        ELSE IF j % 2 = 0 THEN ChainPush(toks[j + 1])
        ELSE Lower(toks[j - 1].val)]

\* C14: an expression t0 op1 t1 ... opn tn is parsed into a flat chain of n
\* operators and n right-hand terms in source order, and compiled to
\* code(t0), code(t1), lower(op1), ..., code(tn), lower(opn), whatever the
\* operators are.
C14_FlatLeftToRight ==
    /\ (pc \in {"compile", "compiled"} /\ perr = "") =>
          Len(root.ops) = Len(root.opTerms)
    /\ (pc \in {"compile", "compiled"} /\ perr = "" /\ IsChain(input)) =>
          /\ root.term = ChainTerm(input[1])
          /\ root.ops = [k \in 1..((Len(input) - 1) \div 2) |-> input[2 * k]]
          /\ root.opTerms = [k \in 1..((Len(input) - 1) \div 2) |->
                                ChainTerm(input[2 * k + 1])]
    /\ (PipeCompiled /\ IsChain(input)) => Emitted = ChainCode(input)

\* x + 1 * x compiled: the add comes before the code of the last term and
\* the multiplication is last.
C14_Witness ==
    /\ PipeCompiled
    /\ input = <<Id("x"), Sym("+"), IntTok("1"), Sym("*"), Id("x")>>
    /\ Emitted = <<"push this 0", "push constant 1", "add", "push this 0",
                   "call Math.multiply 2">>

(***************************************************************************)
(* Claims about the parser                                                 *)
(***************************************************************************)
\* the input is no complete class: it ends before the closing '}' or holds
\* a token of the wrong kind or value
NoClassDerived == input \notin ParseClasses(ParseMaxStmts)

\* C15: for every token stream that does not derive a complete class, a
\* wrong token at any position or the end of the input anywhere before the
\* closing '}' of the class, Parse returns an error and no tree; the
\* process is not ended and no success is returned.
C15_ErrorAndNoTree ==
    (pc = "parsed" /\ NoClassDerived) => (perr = "error" /\ root = NilNode)

\* one token of the input is of the wrong kind or value
HasWrongToken == \E i \in 1..Len(input) : input[i] = WrongToken(i)

\* the complete classes parse, and every wrong token is an error
C15_WrongTokenIsError ==
    pc = "parsed" =>
        /\ ~NoClassDerived => (perr = "" /\ root # NilNode /\ tz = << >>)
        /\ HasWrongToken => (perr = "error" /\ root = NilNode)

\* the end of the input where a statement or the '}' of a block is expected
C15_CrashAtEndOfInput ==
    /\ pc = "parsed"
    /\ input = ParseHead
    /\ perr = "crash"

\* the input declares variables of the type written as word
DeclaresType(word) ==
    \E n \in 1..DecMaxNames, sep \in DecSeps : input = DecInput(word, n, sep)

\* C16: a variable declaration of the type boolean is accepted; one of the
\* type bool, or of a keyword that is no type such as class, is rejected
\* with a parse error.
C16_OnlyBooleanAccepted ==
    pc = "parsed" =>
        /\ DeclaresType("boolean") => (perr = "" /\ root # NilNode)
        /\ DeclaresType("bool") => (perr = "error" /\ root = NilNode)
        /\ DeclaresType("class") => (perr = "error" /\ root = NilNode)

\* the types int, char, boolean and every identifier are accepted, the
\* other keywords rejected
C16_TypeOrClassName ==
    pc = "parsed" =>
        \A word \in DecTypes :
            DeclaresType(word) =>
                IF word \in keywords /\ word \notin {"int", "char", "boolean"}
                THEN perr = "error" /\ root = NilNode
                ELSE perr = "" /\ root # NilNode /\ root.VarType.val = word

\* var bool a; parsed into a declaration of the class bool
C16_BoolAccepted ==
    /\ pc = "parsed"
    /\ input = DecInput("bool", 1, " ")
    /\ perr = ""
    /\ root # NilNode
    /\ root.VarType.type = TokenIdentifier

(***************************************************************************)
(* Claims about the Tokenizer                                              *)
(***************************************************************************)
\* the token the last ReadToken returned
LastToken == lexed[Len(lexed)]

\* the last ReadToken returned a token
TokenRead == lerr = "" /\ lexed # << >>

\* the number of bytes a token of words and symbols takes
TokenBytes(tok) == IF tok.type = TokenSymbol THEN 1 ELSE Len(tok.val)

\* the index in the input of the last byte read, and of the first byte of
\* the token the last ReadToken returned
BytesRead == Len(input) - Len(lexer.rd)

FirstByte == BytesRead - TokenBytes(LastToken) + 1

\* the index of the last newline before the byte i, 0 when there is none
LineStart(i) ==
    IF \E j \in 1..(i - 1) : input[j] = "\n"
    THEN CHOOSE j \in 1..(i - 1) :
            /\ input[j] = "\n"
            /\ \A k \in (j + 1)..(i - 1) : input[k] # "\n"
    ELSE 0

\* the number of newlines before the byte i
NewlinesBefore(i) == Cardinality({ j \in 1..(i - 1) : input[j] = "\n" })

\* C17: on tokens separated by spaces, tabs, carriage returns, newlines and
\* inline comments, every token ReadToken returns has as its line 1 + the
\* number of newlines before its first byte and as its column the 1-based
\* index of its first byte within that line.
C17_LineAndColumn ==
    (pc = "lex" /\ TokenRead) =>
        /\ FirstByte >= 1
        /\ IF LastToken.type = TokenSymbol THEN input[FirstByte] = LastToken.val
           ELSE \A j \in FirstByte..BytesRead : input[j] = "a"
        /\ LastToken.line = 1 + NewlinesBefore(FirstByte)
        /\ LastToken.pos = FirstByte - LineStart(FirstByte)

\* a word read after an inline comment, on the second line at column 2
C17_Witness ==
    /\ pc = "lex"
    /\ TokenRead
    /\ Len(input) >= 5
    /\ input[1] = "/" /\ input[2] = "/" /\ input[3] = "\n"
    /\ input[4] \in {" ", "\t", "\r"}
    /\ LastToken.type = TokenIdentifier
    /\ LastToken.line = 2
    /\ LastToken.pos = 2

\* C18: every token ReadToken returns, on any mix of blanks, newlines,
\* inline comments, block comments and strings with newlines in them, has a
\* line of at least 1 and a column of at least 1.
C18_LineAndColumnFromOne ==
    \A i \in 1..Len(lexed) : lexed[i].line >= 1 /\ lexed[i].pos >= 1

\* a word read after a string constant that holds a newline
C18_Witness ==
    /\ Len(lexed) = 2
    /\ lexed[1].type = TokenStringConst
    /\ \E j \in 1..Len(lexed[1].val) : lexed[1].val[j] = "\n"
    /\ lexed[2].type = TokenIdentifier
    /\ lexed[2].line = 2

\* ReadToken has been called once
FirstRead == (lexed = << >> /\ lerr # "") \/ (Len(lexed) = 1 /\ lerr = "")

\* the input opens with a block comment
OpensComment == Len(input) >= 2 /\ input[1] = "/" /\ input[2] = "*"

\* the two bytes at e are the first "*/" that follows the opening
ClosedAt(e) ==
    /\ e >= 3 /\ e + 1 <= Len(input)
    /\ input[e] = "*" /\ input[e + 1] = "/"
    /\ \A j \in 3..(e - 1) : ~(input[j] = "*" /\ input[j + 1] = "/")

\* the bytes after the byte i are words, blanks and newlines only
PlainAfter(i) == \A j \in (i + 1)..Len(input) : input[j] \in {"a", " ", "\n"}

\* the bytes after the byte i
BytesAfter(i) == SubSeq(input, i + 1, Len(input))

\* C19: a block comment ends with the first "*/" after its opening, whatever
\* stands before it in the comment, a run of '*' included; the token returned
\* next is the first token after that "*/", and end of input when there is
\* none.
C19_FirstStarSlashCloses ==
    (FirstRead /\ OpensComment) =>
        \A e \in 3..Len(input) :
            (ClosedAt(e) /\ PlainAfter(e + 1)) =>
                \E after \in { ReadToken(NewTokenizer(BytesAfter(e + 1))) } :
                    /\ lerr = after.err
                    /\ lerr = "" => /\ LastToken.type = after.tok.type
                                    /\ LastToken.val = after.tok.val

\* the comment of "/**/a" is not closed: the end of the input is reached
\* without the word
C19_RunOfStarsNotClosed ==
    /\ FirstRead
    /\ input = <<"/", "*", "*", "/", "a">>
    /\ lexed = << >>
    /\ lerr = "EOF"

\* the comments closed by "*/" where no '*' stands before that '*', and
\* whose opening is not directly followed by '/', are closed there
C19_ClosedWithoutRun ==
    (FirstRead /\ OpensComment) =>
        \A e \in 4..Len(input) :
            (/\ ClosedAt(e) /\ PlainAfter(e + 1)
             /\ input[3] # "/"
             /\ \A j \in 3..(e - 1) : input[j] # "*") =>
                \E after \in { ReadToken(NewTokenizer(BytesAfter(e + 1))) } :
                    /\ lerr = after.err
                    /\ lerr = "" => /\ LastToken.type = after.tok.type
                                    /\ LastToken.val = after.tok.val

\* the newlines among the bytes from..to of the input
NewlinesIn(from, to) == Cardinality({ j \in from..to : input[j] = "\n" })

\* C20: every newline in a block comment adds one to the line, whatever
\* stands before it, a '*' included: the first token after a block comment
\* with k newlines in it has the line of the opening plus k.
C20_NewlinesInCommentCounted ==
    (FirstRead /\ OpensComment /\ lerr = "") =>
        \A e \in 3..Len(input) :
            (ClosedAt(e) /\ e + 2 <= Len(input) /\ input[e + 2] = "a") =>
                LastToken.line = 1 + NewlinesIn(3, e - 1)

\* the word after the comment "/*\n*/" is reported on line 1
C20_NewlineAfterStarLost ==
    /\ FirstRead
    /\ input = <<"/", "*", "\n", "*", "/", "a">>
    /\ lerr = ""
    /\ LastToken.val = "a"
    /\ LastToken.line = 1

\* no "*/" follows the opening of the comment
Unterminated == \A e \in 3..Len(input) : ~ClosedAt(e)

\* C21: when the input ends in a block comment without its "*/", ReadToken
\* fails with an error that is not the io.EOF it returns after the last
\* token of a well-formed input, and returns no token.
C21_UnterminatedCommentIsNoCleanEOF ==
    (FirstRead /\ OpensComment /\ Unterminated) =>
        (lexed = << >> /\ lerr \notin {"", "EOF"})

\* the comment of "/*a" is never closed, and ReadToken returns io.EOF
C21_CleanEOFInComment ==
    /\ FirstRead
    /\ input = <<"/", "*", "a">>
    /\ lexed = << >>
    /\ lerr = "EOF"

\* the input opens with a string constant
OpensString == Len(input) >= 1 /\ input[1] = "\""

\* the byte q is the first '"' after the opening one
QuoteAt(q) ==
    /\ q >= 2 /\ q <= Len(input)
    /\ input[q] = "\""
    /\ \A j \in 2..(q - 1) : input[j] # "\""

\* C22: when the input ends after an opening '"' without a closing one,
\* ReadToken fails with an error that is not io.EOF and returns no string
\* constant; a string constant is returned only when the closing quote has
\* been read, and its value is the bytes between the two quotes.
C22_StringNeedsClosingQuote ==
    (FirstRead /\ OpensString) =>
        IF \E q \in 2..Len(input) : QuoteAt(q)
        THEN \A q \in 2..Len(input) :
                QuoteAt(q) =>
                    /\ lerr = ""
                    /\ LastToken.type = TokenStringConst
                    /\ LastToken.val = SubSeq(input, 2, q - 1)
                    /\ BytesRead = q
        ELSE lexed = << >> /\ lerr \notin {"", "EOF"}

\* the strings that are closed: the token holds the bytes between the quotes
C22_ClosedStringValue ==
    (FirstRead /\ OpensString) =>
        \A q \in 2..Len(input) :
            QuoteAt(q) =>
                /\ lerr = ""
                /\ LastToken.type = TokenStringConst
                /\ LastToken.val = SubSeq(input, 2, q - 1)
                /\ BytesRead = q

\* the string of "\"a" without its closing quote is returned as a token
C22_TokenWithoutClosingQuote ==
    /\ FirstRead
    /\ input = <<"\"", "a">>
    /\ lerr = ""
    /\ LastToken.type = TokenStringConst
    /\ LastToken.val = <<"a">>

RECURSIVE Concat(_)
\* the string of a sequence of bytes
Concat(bytes) == IF bytes = << >> THEN "" ELSE Head(bytes) \o Concat(Tail(bytes))

\* the index of the last byte of the word that starts with the first byte
\* of the input: the byte before the first blank, symbol or newline
WordEnd ==
    IF \E j \in 2..Len(input) : isSpace(input[j]) \/ input[j] \in symbols \/ isEOL(input[j])
    THEN CHOOSE j \in 1..(Len(input) - 1) :
            /\ isSpace(input[j + 1]) \/ input[j + 1] \in symbols \/ isEOL(input[j + 1])
            /\ \A k \in 2..j : ~(isSpace(input[k]) \/ input[k] \in symbols \/ isEOL(input[k]))
    ELSE Len(input)

\* the first ReadToken returned the word the input starts with, as a
\* keyword when it is one and as an identifier otherwise
WordRead ==
    /\ lerr = ""
    /\ Len(lexed) = 1
    /\ LastToken.val = Concat(SubSeq(input, 1, WordEnd))
    /\ LastToken.type = IF LastToken.val \in keywords THEN TokenKeyword
                        ELSE TokenIdentifier
    /\ BytesRead = WordEnd

\* C23: a token whose first byte is a letter or '_' gathers the bytes up to
\* the next blank, symbol, newline or end of input and is a keyword when
\* the word is one of the keywords and an identifier otherwise; a word that
\* starts with '_' is an identifier, not an error.
C23_WordFromLetterOrUnderscore ==
    (FirstRead /\ Len(input) >= 1 /\ (IsLetter(input[1]) \/ input[1] = "_")) =>
        WordRead

\* the words that start with a letter
C23_WordFromLetter ==
    (FirstRead /\ Len(input) >= 1 /\ IsLetter(input[1])) => WordRead

\* the word _d is no token: ReadToken fails
C23_UnderscoreIsError ==
    /\ FirstRead
    /\ input = <<"_", "d">>
    /\ lexed = << >>
    /\ lerr = "undefined token type"
    /\ pc = "failed"

\* the keyword do, read up to the symbol after it
C23_KeywordRead ==
    /\ FirstRead
    /\ input = <<"d", "o", ";">>
    /\ LastToken.type = TokenKeyword
    /\ LastToken.val = "do"

\* the index of the first byte c from the byte i of bytes on, Len + 1 when
\* there is none
IndexFrom(bytes, i, c) ==
    IF \E j \in i..Len(bytes) : bytes[j] = c
    THEN CHOOSE j \in i..Len(bytes) :
            bytes[j] = c /\ \A k \in i..(j - 1) : bytes[k] # c
    ELSE Len(bytes) + 1

\* the index of the '/' of the first "*/" from the byte i of bytes on,
\* Len + 1 when there is none
CloseFrom(bytes, i) ==
    IF \E j \in i..(Len(bytes) - 1) : bytes[j] = "*" /\ bytes[j + 1] = "/"
    THEN 1 + CHOOSE j \in i..(Len(bytes) - 1) :
                /\ bytes[j] = "*" /\ bytes[j + 1] = "/"
                /\ \A k \in i..(j - 1) : ~(bytes[k] = "*" /\ bytes[k + 1] = "/")
    ELSE Len(bytes) + 1

RECURSIVE TokensOf(_)
\* the kinds and values of the tokens of bytes made of the words a, the
\* symbols ';' and runs: an inline comment ends with the newline or the end
\* of the bytes, a block comment with the first "*/" after its opening
TokensOf(bytes) ==
    IF bytes = << >> THEN << >>
    ELSE IF Len(bytes) >= 2 /\ bytes[1] = "/" /\ bytes[2] = "/"
    THEN TokensOf(SubSeq(bytes, IndexFrom(bytes, 3, "\n") + 1, Len(bytes)))
    ELSE IF Len(bytes) >= 2 /\ bytes[1] = "/" /\ bytes[2] = "*"
    THEN TokensOf(SubSeq(bytes, CloseFrom(bytes, 3) + 1, Len(bytes)))
    ELSE IF bytes[1] = "a"
    THEN <<[type |-> TokenIdentifier, val |-> "a"]>> \o TokensOf(Tail(bytes))
    ELSE IF bytes[1] \in symbols
    THEN <<[type |-> TokenSymbol, val |-> bytes[1]]>> \o TokensOf(Tail(bytes))
    ELSE TokensOf(Tail(bytes))

\* the kinds and values of the tokens ReadToken has returned
Lexed == [j \in 1..Len(lexed) |-> [type |-> lexed[j].type, val |-> lexed[j].val]]

\* ReadToken has returned the first tokens of the input, all of them when
\* it has returned io.EOF, and no other error
TokensKept ==
    /\ pc # "failed"
    /\ Len(lexed) <= Len(TokensOf(input))
    /\ Lexed = SubSeq(TokensOf(input), 1, Len(lexed))
    /\ pc = "lexed" => (Lexed = TokensOf(input) /\ lerr = "EOF")

\* C24: one ReadToken skips every run of blanks, newlines, inline comments
\* and block comments in any order before the next token, so the kinds and
\* values of the tokens are those of the input without the runs; an inline
\* comment ends with a newline or the end of the input, and a run that
\* reaches the end of the input gives io.EOF and no token.
C24_RunsAreSkipped == TokensKept

\* an empty block comment stands in the input
HasEmptyComment ==
    \E j \in 1..(Len(input) - 3) :
        input[j] = "/" /\ input[j + 1] = "*" /\ input[j + 2] = "*" /\ input[j + 3] = "/"

\* the runs without an empty block comment are skipped
C24_RunsWithoutEmptyComment == ~HasEmptyComment => TokensKept

\* the symbol after the run "/**/" is skipped with it
C24_TokenLostAfterEmptyComment ==
    /\ pc = "lexed"
    /\ input = <<"a", "/", "*", "*", "/", ";", " ">>
    /\ Len(lexed) = 1
    /\ lexed[1].val = "a"

\* the tokens around a run of an inline comment and a block comment
C24_RunSkipped ==
    /\ pc = "lexed"
    /\ input = <<"a">> \o <<"/", "/", "a", "\n">> \o <<"/", "*", "a", "*", "/">>
               \o <<";">> \o <<" ">>
    /\ Len(lexed) = 2
    /\ lexed[2].val = ";"

(***************************************************************************)
(* Claims about the dispatcher                                             *)
(***************************************************************************)
\* C25: the .vm file of a source file is written only when parsing and
\* code generation of the file ended without error; when Compiler.Run
\* returns an error no .vm file is written for the file.
C25_VmOnlyWithoutError ==
    \A w \in Workers : w \in jack.vm => jack.kind[w] = "ok"

\* no .vm file after an error of os.Open or of Parse
C25_NoVmAfterParseError ==
    \A w \in Workers : w \in jack.vm => jack.kind[w] \in {"ok", "compile"}

\* the .vm file of a file whose compilation failed is written
C25_VmAfterCompileError ==
    /\ jack.main = "exited"
    /\ \E w \in Workers : jack.kind[w] = "compile" /\ w \in jack.vm
    /\ jack.exit = compFail

\* the files of the errors gathered
ErrFiles == { jack.errs[i].file : i \in 1..Len(jack.errs) }

\* what holds in every state: at most one error a file, and only errors
\* of files that failed
AtMostOneError ==
    /\ \A i, k \in 1..Len(jack.errs) : jack.errs[i].file = jack.errs[k].file => i = k
    /\ \A i \in 1..Len(jack.errs) : jack.kind[jack.errs[i].file] = jack.errs[i].stage
    /\ \A i \in 1..Len(jack.errs) : jack.errs[i].stage # "ok"

\* what holds once gatherErrs has returned: every worker has called Done,
\* the errors are those of the files that failed, and the exit code tells
\* whether there was one
GatheredAll ==
    jack.main \in {"report", "exited"} =>
        /\ \A w \in Workers : jack.wpc[w] = "done"
        /\ jack.wg = 0
        /\ ErrFiles = { w \in Workers : jack.kind[w] # "ok" }
        /\ jack.main = "exited" => (jack.exit = compFail <=> Len(jack.errs) > 0)
        /\ jack.main = "exited" => jack.exit \in {0, compFail}

\* the worker of the file w is at its send on errCh
Sending(w) == w \in Workers /\ jack.wpc[w] \in {"sendReturn", "sendWrite"}

IsOpenLine(l) == Len(l.text) = 3 /\ l.text[1] = "<"

IsCloseLine(l) == Len(l.text) = 3 /\ l.text[1] = "</"

RECURSIVE OpenAfter(_)
\* the names of the tags open after the lines were written, the last
\* opened first
OpenAfter(lines) ==
    IF lines = << >> THEN << >>
    ELSE The({ IF IsOpenLine(l) THEN <<l.text[2]>> \o before
               ELSE IF IsCloseLine(l) THEN Tail(before)
               ELSE before
             : l \in { lines[Len(lines)] },
               before \in { OpenAfter(SubSeq(lines, 1, Len(lines) - 1)) } })

\* the tags open before the line i was written
OpenBefore(i) == OpenAfter(SubSeq(xb.sb, 1, i - 1))

\* the line j opened the tag that the line i closes
Opens(j, i) ==
    /\ j < i
    /\ IsOpenLine(xb.sb[j])
    /\ Len(OpenBefore(j)) = Len(OpenBefore(i)) - 1
    /\ \A k \in (j + 1)..(i - 1) : Len(OpenBefore(k)) >= Len(OpenBefore(i))

\* every line starts with 2 spaces a tag open when it is written; a closing
\* line closes the tag opened last and not closed yet, with the spaces of
\* its opening line; the stack holds the tags not closed
XmlLines ==
    /\ \A i \in 1..Len(xb.sb) :
          IF IsCloseLine(xb.sb[i])
          THEN /\ OpenBefore(i) # << >>
               /\ xb.sb[i].text[2] = Head(OpenBefore(i))
               /\ xb.sb[i].spaces = 2 * (Len(OpenBefore(i)) - 1)
               /\ \E j \in 1..(i - 1) :
                     /\ Opens(j, i)
                     /\ xb.sb[j].text[2] = xb.sb[i].text[2]
                     /\ xb.sb[j].spaces = xb.sb[i].spaces
          ELSE xb.sb[i].spaces = 2 * Len(OpenBefore(i))
    /\ xb.st = OpenAfter(xb.sb)
    /\ xb.panic => xb.st = << >>

\* with no tag open no closing line is written, and a panic writes nothing
XmlEmptyStackStep ==
    xb.st = << >> =>
        /\ xb'.panic => (xb'.sb = xb.sb /\ xb'.st = xb.st)
        /\ (~xb'.panic /\ xb'.sb # xb.sb) => ~IsCloseLine(xb'.sb[Len(xb'.sb)])

\* C27: in a sequence of Open, Close and token writes each Close writes the
\* closing tag of the tag opened last and not closed yet, with the spaces
\* of its opening tag; every line starts with 2 spaces a tag open when it is
\* written; Close on the empty stack panics and writes nothing.
C27_LifoAndIndent == []XmlLines /\ [][XmlEmptyStackStep]_vars

\* what TestTokens builds: two levels and a token, all closed
C27_Witness ==
    /\ Len(xb.sb) = 5
    /\ xb.st = << >>
    /\ ~xb.panic
    /\ xb.sb[1].text = <<"<", "level1", ">">>
    /\ xb.sb[2].text = <<"<", "level2", ">">>
    /\ xb.sb[3] = [spaces |-> 4, text |-> GetXml(Tok(TokenKeyword, "var"))]
    /\ xb.sb[4] = [spaces |-> 2, text |-> <<"</", "level2", ">">>]
    /\ xb.sb[5] = [spaces |-> 0, text |-> <<"</", "level1", ">">>]

\* Close with no tag open
C27_PanicOnEmptyStack ==
    /\ xb.panic
    /\ Len(xb.sb) = 2
    /\ xb.st = << >>

(***************************************************************************)
(* Claims about the lookahead of the parser                                *)
(***************************************************************************)
\* the tokens in the lookahead slots, slot 0 first
Buffered == SelectSeq(peeked, LAMBDA tk : tk # NilToken)

\* the tokens next has not returned yet
Ahead == Buffered \o tz

\* the token k places ahead, nil past the end of the input
AheadAt(k) == IF k <= Len(Ahead) THEN Ahead[k] ELSE NilToken

\* the tokens next has returned are the first tokens of the lexer, none
\* left out and none twice; a peek returns the token so many places ahead;
\* slot 1 is filled only while slot 0 is
LookaheadKept ==
    /\ got.tokens \o Ahead = input
    /\ Len(Buffered) <= 2
    /\ peeked[2] # NilToken => peeked[1] # NilToken
    /\ got.call = "peek0" => got.tok = AheadAt(1)
    /\ got.call = "peek1" => got.tok = AheadAt(2)
    /\ (got.call = "next" /\ perr = "") => got.tok = got.tokens[Len(got.tokens)]

\* a peek takes no token: what next will return stays the same
PeekStep ==
    got'.call \in {"peek0", "peek1"} =>
        /\ got'.tokens = got.tokens
        /\ Ahead' = Ahead
        /\ perr' = perr

\* C28: with peek(1) called only while slot 0 is filled, the tokens next
\* returns are the tokens of the lexer in its order, none left out and none
\* twice; a peek does not change what next returns and gives the same token
\* when repeated; at most 2 tokens are buffered, and slot 1 is never filled
\* while slot 0 is empty.
C28_LookaheadInOrder == []LookaheadKept /\ [][PeekStep]_vars

\* both slots were filled, and next has returned three tokens since
C28_Witness ==
    /\ Len(got.tokens) = 3
    /\ got.call = "next"
    /\ perr = ""
    /\ peeked[1] # NilToken
    /\ peeked[2] = NilToken
    /\ tz = << >>
    /\ Len(input) = 4

(***************************************************************************)
(* Claims about the stack of symbol tables during a walk                   *)
(***************************************************************************)
\* the parameters of sdn, and the object itself for a method
ArgsOf(sdn) ==
    Len(sdn.ParamList.varNames) + (IF GetValue(sdn.SbrKind) = "method" THEN 1 ELSE 0)

\* the walk was ended by an error of the Compiler inside a subroutine
AbortedInSubroutine == pc = "done" /\ cerr = "error" /\ nSubs > 0

\* C29: the stack of symbol tables is empty before the class, holds one
\* table between subroutines and two inside a subroutine, never more; when
\* Run has returned, with or without an error, it is empty; and the table
\* of a subroutine counts only its own arguments and local variables,
\* whatever subroutines came before it
C29_TableDepth ==
    /\ Len(Tbl) <= 2
    /\ cerr # "crash"
    /\ pc = "start" => Len(Tbl) = 0
    /\ pc = "class" => Len(Tbl) = 1
    /\ pc = "body" => Len(Tbl) = 2
    /\ pc = "done" => Len(Tbl) = 0
    /\ (pc = "body" /\ last.op = "SubroutineEnter") =>
           /\ STCount(Tbl[Top], Arg) = ArgsOf(last.node)
           /\ STCount(Tbl[Top], Local) = LocalVarLen(last.node.VarDec)
           /\ STCount(Tbl[Top], Field) = 0
           /\ STCount(Tbl[Top], Static) = 0

\* a second subroutine was entered and an error in it ended the walk
C29_Witness ==
    /\ AbortedInSubroutine
    /\ nSubs = 2
    /\ last.op = "Statement"
    /\ Len(Tbl) = 0

\* a second subroutine is open and its table holds its own variables only
C29_SecondSubroutine ==
    /\ pc = "body"
    /\ nSubs = 2
    /\ last.op = "SubroutineEnter"
    /\ GetValue(last.node.Name) = "f"
    /\ STCount(Tbl[Top], Arg) = 3
    /\ STCount(Tbl[Top], Local) = 1

\* each of the three errors ends a walk
C29_DuplicateName ==
    pc = "done" /\ cerr = "error" /\ last.op = "SubroutineEnter"

C29_UnknownOperator ==
    pc = "done" /\ cerr = "error" /\ last.op = "Statement"
        /\ last.node = NewReturnNode(E_unknownOp)

C29_UndeclaredVariable ==
    pc = "done" /\ cerr = "error" /\ last.op = "Statement"
        /\ last.node = NewReturnNode(E(NewVarTermNode(Id("x"))))

(***************************************************************************)
(* Claims about the XML of a parse tree                                    *)
(***************************************************************************)
\* the lines of the builder that are tokens, in the order written
XmlTokenLines ==
    SelectSeq([i \in 1..Len(xb.sb) |-> xb.sb[i].text], LAMBDA t : Len(t) = 7)

\* the input holds one of the statements with a plain variable
HasVarStatement ==
    \E st \in TreeVarStatements :
        \E k \in 1..Len(input) :
            k + Len(st) - 1 <= Len(input) /\ SubSeq(input, k, k + Len(st) - 1) = st

\* the value of every let statement opens as an expression of a term
LetValuesAreTerms ==
    \A i \in 1..Len(xb.sb) :
        xb.sb[i].text = GetXml(Sym("=")) =>
            /\ i + 2 <= Len(xb.sb)
            /\ xb.sb[i + 1].text = <<"<", "expression", ">">>
            /\ xb.sb[i + 2].text = <<"<", "term", ">">>
            /\ IsOpenLine(xb.sb[i + 2])

\* C30: the XML of the tree of every class the parser accepts is written
\* to the end without a panic, no element is left open, every token of
\* the class is in it in order, and the value of a let statement, whatever
\* term it is, is rendered as a term element
C30_EveryTermRendered ==
    /\ pc # "crashed"
    /\ pc = "written" =>
          /\ ~xb.panic
          /\ xb.st = newStack
          /\ XmlTokenLines = [i \in 1..Len(input) |-> GetXml(input[i])]
          /\ LetValuesAreTerms

\* the tree of  let x = y;  was parsed and its XML ended in the panic of
\* TermNode.Xml; the deferred Close calls emptied the stack
C30_PlainVariablePanics ==
    /\ pc = "crashed"
    /\ perr = ""
    /\ input = ParseHead \o TreeLet(<<Id("y")>>) \o <<Sym("}"), Sym("}")>>
    /\ xb.st = newStack

\* the XML of a tree is written to the end exactly when no plain variable
\* is among its terms, and then it holds every token in order
C30_RenderedWithoutVariable ==
    /\ pc = "crashed" => HasVarStatement
    /\ pc = "written" =>
          /\ ~HasVarStatement
          /\ ~xb.panic
          /\ xb.st = newStack
          /\ XmlTokenLines = [i \in 1..Len(input) |-> GetXml(input[i])]
          /\ LetValuesAreTerms

\* a class with each kind of term but the plain variable was written
C30_OtherTermsRendered ==
    /\ pc = "written"
    /\ \E t1, t2 \in TreeTerms :
          /\ t1 # t2
          /\ input = ParseHead \o TreeLet(t1) \o TreeLet(t2) \o <<Sym("}"), Sym("}")>>

====
